---- MODULE Spec2Model ----
(***************************************************************************)
(* A model of WrapSlurm (voidful/WrapSlurm): the winfo node listing        *)
(* (wrapslurm/node_info.py) and the wrun job launcher                      *)
(* (wrapslurm/job_runner.py, wrapslurm/interactive_config.py).             *)
(*                                                                         *)
(* Text is modelled as what it is: a Python str is a sequence of           *)
(* one-character strings, and every regular expression of the source is an *)
(* operator that scans that sequence the way re.search / re.match /        *)
(* re.findall do (leftmost match, greedy runs).  A dict is a sequence of    *)
(* [k, v] entries in insertion order.  A raised exception is the record     *)
(* [exc |-> <type>].                                                        *)
(*                                                                         *)
(* Seven specifications share the variables:                               *)
(*   Spec         a run of winfo: main, get_node_info block by block,      *)
(*                display_nodes or show_job_detail, and the exit status    *)
(*   SpecMapping  get_job_gpu_mapping on one output of squeue              *)
(*   SpecParse    parse_node_data on one descriptor block                  *)
(*   SpecDisplay  display_nodes on a list of node records                  *)
(*   SpecPartitions  query_partition_resources on one output of sinfo      *)
(*   SpecRun      a run of wrun: main, resolve_job_config, the interactive *)
(*                session, the dry run or the submitted script             *)
(*   SpecCancel   cancel_jobs of wcancel on a list of job ids              *)
(* What scontrol and squeue print is kept in two forms, the tokens that    *)
(* were rendered and the rendered text; the program reads only the text.   *)
(***************************************************************************)
EXTENDS Integers, Sequences, FiniteSets, TLC

VARIABLES
    pc,           \* position of the running program
    args,         \* argparse namespace of the running program (winfo or wrun)
    scontrol,     \* what `scontrol show node` does: [status, blocks, out]
    squeue,       \* what `squeue -h -t R -o %i|%N|%b` does: [status, rows, out]
    parse_data,   \* parse_node_data's last argument: [block, text]
    parse_node,   \* parse_node_data's last result
    nodes_data,   \* get_node_info: the blocks of scontrol's output not yet parsed
    nodes,        \* get_node_info's result / display_nodes' argument
    job_mapping,  \* get_job_gpu_mapping's result
    table,        \* display_nodes' table: [titles, rows]
    exc,          \* the exception that left the last call, or None
    stdout,       \* what was printed, in order
    stderr,       \* the interpreter's traceback of an uncaught exception, if any
    exit_code,    \* exit status of the process (NoExit until it ends)
    sinfo,        \* what `sinfo --format=%P|%c|%m|%G|%l --noheader` does: [status, lines, out]
    sacctmgr,     \* what `sacctmgr show assoc user=... format=Account --noheader` does
    defaults_file,\* ~/.config/wrapslurm/defaults.json: [state, data]
    answers,      \* questionary: whether it is installed, and what the user selects
    partition_infos, \* query_partition_resources' result
    resolved,     \* resolve_job_config's result
    commands,     \* the job commands wrun has run, in order: "srun", "sbatch"
    files         \* the sbatch scripts wrun has written, in order

vars == <<pc, args, scontrol, squeue, parse_data, parse_node, nodes_data, nodes,
          job_mapping, table, exc, stdout, stderr, exit_code,
          sinfo, sacctmgr, defaults_file, answers, partition_infos, resolved, commands,
          files>>

\* the variables that only wrun uses
wrun_vars == <<sinfo, sacctmgr, defaults_file, answers, partition_infos, resolved, commands,
          files>>

\* the variables that only winfo uses
winfo_vars == <<scontrol, squeue, parse_data, parse_node, nodes_data, nodes, job_mapping,
                table>>

-----------------------------------------------------------------------------
(* Python values *)

None == [none |-> TRUE]

Raise(type) == [exc |-> type]

\* v is a record: a raised exception, None, or a value record
IsExc(v) == "exc" \in DOMAIN v

Min(a, b) == IF a <= b THEN a ELSE b

Max(a, b) == IF a >= b THEN a ELSE b

-----------------------------------------------------------------------------
(* Characters and str methods *)

DigitChars == <<"0", "1", "2", "3", "4", "5", "6", "7", "8", "9">>

LowerChars == <<"a", "b", "c", "d", "e", "f", "g", "h", "i", "j", "k", "l", "m",
                "n", "o", "p", "q", "r", "s", "t", "u", "v", "w", "x", "y", "z">>

UpperChars == <<"A", "B", "C", "D", "E", "F", "G", "H", "I", "J", "K", "L", "M",
                "N", "O", "P", "Q", "R", "S", "T", "U", "V", "W", "X", "Y", "Z">>

Range(s) == {s[i] : i \in DOMAIN s}

IsDigit(c) == c \in Range(DigitChars)

IsAlpha(c) == c \in Range(LowerChars) \cup Range(UpperChars)

IsAlnum(c) == IsAlpha(c) \/ IsDigit(c)

IsSpace(c) == c \in {" ", "\n", "\t", "\r"}

\* the character classes of the regular expressions
InClass(c, cls) ==
    CASE cls = "\\d" -> IsDigit(c)
      [] cls = "[a-zA-Z]" -> IsAlpha(c)
      [] cls = "[a-zA-Z0-9]" -> IsAlnum(c)
      [] cls = "\\S" -> ~IsSpace(c)
      [] cls = "[^\\n]" -> c # "\n"
      [] cls = "[^:]" -> c # ":"
      [] cls = "[^\\]]" -> c # "]"
      [] cls = "[:\\=]" -> c \in {":", "="}

\* str.lower() on one character
LowerChar(c) ==
    IF c \in Range(UpperChars)
    THEN LowerChars[CHOOSE i \in DOMAIN UpperChars : UpperChars[i] = c]
    ELSE c

\* str.lower()
Lower(s) == [i \in DOMAIN s |-> LowerChar(s[i])]

\* the literal lit stands in s at index i
LitAt(s, i, lit) ==
    /\ i >= 1
    /\ i + Len(lit) - 1 <= Len(s)
    /\ \A j \in 1..Len(lit) : s[i + j - 1] = lit[j]

\* the least element of a set of indices, 0 when there is none
FirstOf(S) == IF S = {} THEN 0 ELSE CHOOSE x \in S : \A y \in S : x <= y

\* str.find from index i (1-based): the first index >= i where lit stands, or 0
Find(s, lit, i) == FirstOf({j \in i..Len(s) : LitAt(s, j, lit)})

\* `lit in s`
Contains(s, lit) == Find(s, lit, 1) # 0

\* length of the longest run of characters of class cls that starts at s[i]:
\* the run ends before the first index that is past s or holds another character
RunLen(cls, s, i) ==
    FirstOf({j \in i..(Len(s) + 1) : IF j > Len(s) THEN TRUE ELSE ~InClass(s[j], cls)}) - i

\* s[i .. i+n-1]
Sub(s, i, n) == SubSeq(s, i, i + n - 1)

\* str.split(sep) for a non-empty separator; at is where sep first stands
RECURSIVE Split(_, _)
RECURSIVE SplitAt(_, _, _)
SplitAt(s, sep, at) ==
    IF at = 0 THEN <<s>>
    ELSE <<SubSeq(s, 1, at - 1)>> \o Split(SubSeq(s, at + Len(sep), Len(s)), sep)

Split(s, sep) == SplitAt(s, sep, Find(s, sep, 1))

\* str.strip()
RECURSIVE LStrip(_)
LStrip(s) == IF s # <<>> /\ IsSpace(Head(s)) THEN LStrip(Tail(s)) ELSE s

RECURSIVE RStrip(_)
RStrip(s) ==
    IF s # <<>> /\ IsSpace(s[Len(s)]) THEN RStrip(SubSeq(s, 1, Len(s) - 1)) ELSE s

Strip(s) == RStrip(LStrip(s))

\* sep.join(parts)
RECURSIVE Join(_, _)
Join(parts, sep) ==
    IF parts = <<>> THEN <<>>
    ELSE IF Len(parts) = 1 THEN parts[1]
    ELSE parts[1] \o sep \o Join(Tail(parts), sep)

DigitVal(c) == (CHOOSE i \in DOMAIN DigitChars : DigitChars[i] = c) - 1

AllDigits(s) == s # <<>> /\ \A i \in DOMAIN s : IsDigit(s[i])

\* the value of a non-empty run of decimal digits
RECURSIVE DigitsVal(_)
DigitsVal(s) ==
    IF s = <<>> THEN 0
    ELSE 10 * DigitsVal(SubSeq(s, 1, Len(s) - 1)) + DigitVal(s[Len(s)])

\* int(s) accepts a decimal literal and raises ValueError otherwise.  (It also
\* accepts a sign, surrounding blanks and underscores; no modelled input has
\* them.)  IntOk is "int(s) does not raise", PyInt its value.
IntOk(s) == AllDigits(s)

PyInt(s) == DigitsVal(s)

\* str(n) for n >= 0
RECURSIVE Str(_)
Str(n) == IF n < 10 THEN <<DigitChars[n + 1]>>
          ELSE Str(n \div 10) \o <<DigitChars[(n % 10) + 1]>>

\* str.zfill(width)
RECURSIVE ZFill(_, _)
ZFill(s, width) == IF Len(s) >= width THEN s ELSE ZFill(<<"0">> \o s, width)

-----------------------------------------------------------------------------
(* Regular expressions.  A pattern is a sequence of pieces: a literal, a       *)
(* greedy run of a character class (at least min characters, captured as a    *)
(* group or not), one character of a class, or a lazy run (\S*?).  Every      *)
(* greedy run of the source's patterns is followed by the end of the pattern  *)
(* or by a literal whose first character is outside the run's class, so the   *)
(* longest run is the only one that can match and no backtracking is needed.  *)
(* A match is [groups, end] (end: the index after the match), or None.        *)

Lit(chars) == [piece |-> "lit", chars |-> chars]

Group(cls, min) == [piece |-> "run", cls |-> cls, min |-> min, group |-> TRUE]

Run(cls, min) == [piece |-> "run", cls |-> cls, min |-> min, group |-> FALSE]

OneOf(cls) == [piece |-> "run1", cls |-> cls]

Lazy(cls) == [piece |-> "lazy", cls |-> cls]

RECURSIVE MatchAt(_, _, _, _, _)
RECURSIVE MatchRun(_, _, _, _, _, _)
RECURSIVE MatchLazy(_, _, _, _, _, _)

\* the pieces pat[k..] match s from index i on, groups found so far
MatchAt(pat, k, s, i, groups) ==
    IF k > Len(pat) THEN [groups |-> groups, end |-> i]
    ELSE IF pat[k].piece = "lit"
    THEN IF LitAt(s, i, pat[k].chars)
         THEN MatchAt(pat, k + 1, s, i + Len(pat[k].chars), groups)
         ELSE None
    ELSE IF pat[k].piece = "run"
    THEN MatchRun(pat, k, s, i, groups, RunLen(pat[k].cls, s, i))
    ELSE IF pat[k].piece = "run1"
    THEN IF i <= Len(s) /\ InClass(s[i], pat[k].cls)
         THEN MatchAt(pat, k + 1, s, i + 1, groups)
         ELSE None
    ELSE MatchLazy(pat, k, s, i, groups, MatchAt(pat, k + 1, s, i, groups))

MatchRun(pat, k, s, i, groups, n) ==
    IF n < pat[k].min THEN None
    ELSE MatchAt(pat, k + 1, s, i + n,
                 IF pat[k].group THEN Append(groups, Sub(s, i, n)) ELSE groups)

\* a lazy run takes one more character only when the rest does not match yet
MatchLazy(pat, k, s, i, groups, rest) ==
    IF rest # None THEN rest
    ELSE IF i <= Len(s) /\ InClass(s[i], pat[k].cls) THEN MatchAt(pat, k, s, i + 1, groups)
    ELSE None

\* re.match(pat, s)
ReMatch(pat, s) == MatchAt(pat, 1, s, 1, <<>>)

\* the indices from i on where pat matches
MatchStarts(pat, s, i) == {j \in i..Len(s) : MatchAt(pat, 1, s, j, <<>>) # None}

\* the match at the first of the indices starts, None when there is none
FirstMatch(pat, s, starts) ==
    IF starts = {} THEN None ELSE MatchAt(pat, 1, s, FirstOf(starts), <<>>)

\* re.search(pat, s): the leftmost match
ReSearch(pat, s) == FirstMatch(pat, s, MatchStarts(pat, s, 1))

\* re.findall(pat, s): the groups of the successive matches, none overlapping
RECURSIVE FindAllFrom(_, _, _)
RECURSIVE FindAllStep(_, _, _)
FindAllStep(pat, s, m) ==
    IF m = None THEN <<>> ELSE <<m.groups>> \o FindAllFrom(pat, s, m.end)

FindAllFrom(pat, s, i) == FindAllStep(pat, s, FirstMatch(pat, s, MatchStarts(pat, s, i)))

ReFindAll(pat, s) == FindAllFrom(pat, s, 1)

\* a dict: entries [k, v] in insertion order
DictHas(d, k) == \E i \in DOMAIN d : d[i].k = k

DictGet(d, k, default) ==
    IF DictHas(d, k) THEN d[CHOOSE i \in DOMAIN d : d[i].k = k].v ELSE default

\* d[k] = v
DictSet(d, k, v) ==
    IF DictHas(d, k)
    THEN [i \in DOMAIN d |-> IF d[i].k = k THEN [k |-> k, v |-> v] ELSE d[i]]
    ELSE Append(d, [k |-> k, v |-> v])

DictKeys(d) == {d[i].k : i \in DOMAIN d}

-----------------------------------------------------------------------------
(* get_job_gpu_mapping *)

\* r'gpu:([a-zA-Z0-9]+):(\d+)'
RE_GpuTypeCount ==
    <<Lit(<<"g", "p", "u", ":">>), Group("[a-zA-Z0-9]", 1), Lit(<<":">>), Group("\\d", 1)>>

\* r'gpu[:\=](\d+)'
RE_GpuCount == <<Lit(<<"g", "p", "u">>), OneOf("[:\\=]"), Group("\\d", 1)>>

\* r'([a-zA-Z]+)\[([^\]]+)\]'
RE_BaseRange == <<Group("[a-zA-Z]", 1), Lit(<<"[">>), Group("[^\\]]", 1), Lit(<<"]">>)>>

\* gpu_type and gpu_count, from the two searches of the generic-resource field
GpuFromMatches(gpu_type_match, gpu_match) ==
    IF gpu_type_match # None
    THEN [gpu_type |-> gpu_type_match.groups[1],
          gpu_count |-> PyInt(gpu_type_match.groups[2])]
    ELSE IF gpu_match # None
    THEN [gpu_type |-> <<"g", "p", "u">>, gpu_count |-> PyInt(gpu_match.groups[1])]
    ELSE [gpu_type |-> <<"g", "p", "u">>, gpu_count |-> 0]

\* the GPU type and count of a row's generic-resource field
ResolveGpu(gres) ==
    GpuFromMatches(ReSearch(RE_GpuTypeCount, gres), ReSearch(RE_GpuCount, gres))

\* [f"{base_name}{str(i).zfill(width)}" for i in range(lo, hi + 1)]
RECURSIVE RangeNames(_, _, _, _)
RangeNames(base_name, width, lo, hi) ==
    IF lo > hi THEN <<>>
    ELSE <<base_name \o ZFill(Str(lo), width)>> \o RangeNames(base_name, width, lo + 1, hi)

\* RangePart without the zero padding: str(i) instead of str(i).zfill(width)
RangePart_NoPad(base_name, se) ==
    IF Len(se) # 2 \/ ~IntOk(se[1]) \/ ~IntOk(se[2])
    THEN Raise("ValueError")
    ELSE [val |-> RangeNames(base_name, 0, PyInt(se[1]), PyInt(se[2]))]

\* a part with a '-': se is part.split('-').  `start, end = se` raises ValueError
\* unless there are two pieces, and int() unless both are decimal
RangePart(base_name, se) ==
    IF Len(se) # 2 \/ ~IntOk(se[1]) \/ ~IntOk(se[2])
    THEN Raise("ValueError")
    ELSE [val |-> RangeNames(base_name, Len(se[1]), PyInt(se[1]), PyInt(se[2]))]

\* the names one part of the bracket contributes, or ValueError
PartNames(base_name, part) ==
    IF Contains(part, <<"-">>) THEN RangePart(base_name, Split(part, <<"-">>))
    ELSE [val |-> <<base_name \o part>>]

\* nodes after one more part: the first exception leaves the loop
MoreNames(h, t) ==
    IF IsExc(h) THEN h
    ELSE IF IsExc(t) THEN t
    ELSE [val |-> h.val \o t.val]

\* for part in range_part.split(',')
RECURSIVE PartsNames(_, _)
PartsNames(base_name, parts) ==
    IF parts = <<>> THEN [val |-> <<>>]
    ELSE MoreNames(PartNames(base_name, Head(parts)), PartsNames(base_name, Tail(parts)))

\* the branch `if '[' in node_list`: nodes stays empty when the pattern fails
ExpandBracket(base_match) ==
    IF base_match # None
    THEN PartsNames(base_match.groups[1], Split(base_match.groups[2], <<",">>))
    ELSE [val |-> <<>>]

\* [n.strip() for n in names]
StripAll(names) == [i \in DOMAIN names |-> Strip(names[i])]

\* nodes, the expansion of a row's node-list field
ExpandNodeList(node_list) ==
    IF Contains(node_list, <<"[">>)
    THEN ExpandBracket(ReMatch(RE_BaseRange, node_list))
    ELSE [val |-> StripAll(Split(node_list, <<",">>))]

\* NodeGpuCount without the remainder: every node gets gpu_count // n
NodeGpuCount_NoRemainder(gpu_count, n, idx) == gpu_count \div n

\* node_gpu_count of the node at 0-based index idx: gpus_per_node, and one more
\* for idx < remainder
NodeGpuCount(gpu_count, n, idx) ==
    (gpu_count \div n) + (IF idx < gpu_count % n THEN 1 ELSE 0)

\* AppendClaim with an assignment in place of the append: job_mapping[name] = [claim]
AppendClaim_Overwrite(mapping, name, claim) == DictSet(mapping, name, <<claim>>)

\* job_mapping[name].append(claim), the list created when the key is new
AppendClaim(mapping, name, claim) ==
    DictSet(mapping, name, Append(DictGet(mapping, name, <<>>), claim))

\* for idx, node in enumerate(nodes)
RECURSIVE Distribute(_, _, _, _, _, _)
Distribute(mapping, job_id, gpu_type, gpu_count, names, idx) ==
    IF idx >= Len(names) THEN mapping
    ELSE Distribute(AppendClaim(mapping, names[idx + 1],
                                <<job_id, gpu_type, NodeGpuCount(gpu_count, Len(names), idx)>>),
                    job_id, gpu_type, gpu_count, names, idx + 1)

\* the end of an iteration: the row's claims recorded, or the exception of its
\* node list
RecordClaims(mapping, job_id, gpu, expanded) ==
    IF IsExc(expanded) THEN expanded
    ELSE [val |-> Distribute(mapping, job_id, gpu.gpu_type, gpu.gpu_count, expanded.val, 0)]

\* ProcessFields without `if gpu_count == 0: continue`
ProcessFields_NoZeroSkip(mapping, job_id, node_list, gpu) ==
    RecordClaims(mapping, job_id, gpu, ExpandNodeList(node_list))

\* an iteration from the three stripped fields on
ProcessFields(mapping, job_id, node_list, gpu) ==
    IF gpu.gpu_count = 0 THEN [val |-> mapping]
    ELSE RecordClaims(mapping, job_id, gpu, ExpandNodeList(node_list))

\* an iteration from parts = line.split('|') on
ProcessParts(mapping, parts) ==
    IF Len(parts) < 3 THEN [val |-> mapping]
    ELSE ProcessFields(mapping, Strip(parts[1]), Strip(parts[2]), ResolveGpu(Strip(parts[3])))

\* one iteration of `for line in result.split('\n')`
ProcessLine(mapping, line) ==
    IF Strip(line) = <<>> THEN [val |-> mapping]
    ELSE ProcessParts(mapping, Split(line, <<"|">>))

RECURSIVE ProcessLines(_, _)
RECURSIVE ContinueLines(_, _)
ContinueLines(r, rest) == IF IsExc(r) THEN r ELSE ProcessLines(r.val, rest)

ProcessLines(mapping, lines) ==
    IF lines = <<>> THEN [val |-> mapping]
    ELSE ContinueLines(ProcessLine(mapping, Head(lines)), Tail(lines))

\* get_job_gpu_mapping from result = check_output(...).strip() on
MappingOf(result) ==
    IF result = <<>> THEN [val |-> <<>>]
    ELSE ProcessLines(<<>>, Split(result, <<"\n">>))

\* get_job_gpu_mapping without its try/except: a failed squeue leaves the call
GetJobGpuMapping_NoCatch(sq) ==
    IF sq.status \in {"CalledProcessError", "FileNotFoundError"} THEN Raise(sq.status)
    ELSE MappingOf(Strip(sq.out))

\* get_job_gpu_mapping() when squeue behaves as sq
GetJobGpuMapping(sq) ==
    IF sq.status \in {"CalledProcessError", "FileNotFoundError"} THEN [val |-> <<>>]
    ELSE MappingOf(Strip(sq.out))

-----------------------------------------------------------------------------
(* What squeue can print.  A row is kept in two forms: its fields (job_id,    *)
(* nodelist, gres: what the cluster means) and the text the program reads.   *)
(* The program reads only the text.                                          *)

MaxNum == 2      \* numbers inside a bracket are 0..MaxNum

MaxNodes == 3    \* a plain node list has 1..MaxNodes names

MaxGpus == 5     \* a row asks for 0..MaxGpus GPUs

MaxRows == 2     \* rows of a multi-row squeue output

Prefixes == {<<"n">>, <<"h", "g", "p", "n">>}

\* a number as it is written inside a bracket: plain, or padded to two digits
NumTexts == {Str(v) : v \in 0..MaxNum} \cup {ZFill(Str(v), 2) : v \in 0..MaxNum}

SingleParts == {[kind |-> "single", num |-> t] : t \in NumTexts}

RangeParts == {[kind |-> "range", start |-> a, end |-> b] : a \in NumTexts, b \in NumTexts}

SecondParts ==
    SingleParts \cup {[kind |-> "range", start |-> <<"1">>, end |-> <<"2">>],
                      [kind |-> "range", start |-> <<"0", "1">>, end |-> <<"0", "2">>]}

BracketLists ==
    {[kind |-> "bracket", prefix |-> p, parts |-> <<a>>] :
        p \in Prefixes, a \in SingleParts \cup RangeParts}
    \cup {[kind |-> "bracket", prefix |-> <<"n">>, parts |-> <<a, b>>] :
        a \in SingleParts \cup RangeParts, b \in SecondParts}
    \cup {[kind |-> "bracket", prefix |-> <<"h", "g", "p", "n">>,
           parts |-> <<[kind |-> "range", start |-> <<"0", "1">>, end |-> <<"0", "3">>],
                       [kind |-> "single", num |-> <<"0", "5">>]>>]}

\* n1, n2, ... : the names of a plain list
PlainName(i) == <<"n">> \o Str(i)

PlainLists ==
    {[kind |-> "plain", names |-> [i \in 1..n |-> PlainName(i)]] : n \in 1..MaxNodes}
    \cup {[kind |-> "plain", names |-> <<<<"a">>, <<"b">>, <<"c">>>>],
          [kind |-> "plain", names |-> <<<<"a">>, <<"a">>>>]}

\* forms that are neither: a prefix that is not purely alphabetic, names after
\* the bracket, a range that is not <digits>-<digits>
RawLists ==
    {[kind |-> "raw", text |-> t] : t \in {
        <<"n", "1", "[", "0", "1", "-", "0", "2", "]">>,
        <<"g", "-", "n", "[", "0", "1", "-", "0", "2", "]">>,
        <<"n", "[", "1", "-", "2", "]", ",", "x", "5">>,
        <<"x", "5", ",", "n", "[", "1", "-", "2", "]">>,
        <<"n", "[", "a", "-", "b", "]">>,
        <<"n", "[", "0", "1", "-", "0", "3", "-", "0", "5", "]">>,
        <<"n", "[", "1", "-", "]">>,
        <<"n", "[", "]">>}}

RenderPart(part) ==
    IF part.kind = "single" THEN part.num ELSE part.start \o <<"-">> \o part.end

RenderNodeList(nl) ==
    IF nl.kind = "bracket"
    THEN nl.prefix \o <<"[">>
         \o Join([i \in DOMAIN nl.parts |-> RenderPart(nl.parts[i])], <<",">>) \o <<"]">>
    ELSE IF nl.kind = "plain" THEN Join(nl.names, <<",">>)
    ELSE nl.text

GpuTypes == {<<"a", "1", "0", "0">>, <<"3", "0", "9", "0">>}

GresKinds == {"gpu:T:N", "gpu:N", "gres/gpu:T=N", "gres/gpu=N"}

\* a request for GPUs of two types: gpu:<type>:<count>,gpu:<type>:<count>
TypedLists ==
    {<<[type |-> t1, count |-> c1], [type |-> t2, count |-> c2]>> :
        t1 \in GpuTypes, t2 \in {<<"v">>}, c1 \in 1..2, c2 \in 1..2}

RenderTypedEntry(e) == <<"g", "p", "u", ":">> \o e.type \o <<":">> \o Str(e.count)

GresFields ==
    {[kind |-> k, type |-> t, count |-> c] :
        k \in {"gpu:T:N", "gres/gpu:T=N"}, t \in GpuTypes, c \in 0..MaxGpus}
    \cup {[kind |-> k, type |-> <<>>, count |-> c] :
        k \in {"gpu:N", "gres/gpu=N"}, c \in 0..MaxGpus}
    \cup {[kind |-> "typed", entries |-> e] : e \in TypedLists}
    \cup {[kind |-> "raw", text |-> t] : t \in {
        <<"N", "/", "A">>, <<"(", "n", "u", "l", "l", ")">>, <<>>,
        <<"g", "p", "u", ":", "a", "1", "0", "0", ":", "2", ",",
          "g", "p", "u", ":", "v", ":", "1">>}}

RenderGres(g) ==
    IF g.kind = "gpu:T:N" THEN <<"g", "p", "u", ":">> \o g.type \o <<":">> \o Str(g.count)
    ELSE IF g.kind = "gpu:N" THEN <<"g", "p", "u", ":">> \o Str(g.count)
    ELSE IF g.kind = "gres/gpu:T=N"
    THEN <<"g", "r", "e", "s", "/", "g", "p", "u", ":">> \o g.type \o <<"=">> \o Str(g.count)
    ELSE IF g.kind = "gres/gpu=N"
    THEN <<"g", "r", "e", "s", "/", "g", "p", "u", "=">> \o Str(g.count)
    ELSE IF g.kind = "typed"
    THEN Join([i \in DOMAIN g.entries |-> RenderTypedEntry(g.entries[i])], <<",">>)
    ELSE g.text

\* squeue's job ids are unique per row
JobIdAt(i) == Str(100 + i)

\* a row with its three fields, a row cut short, or a blank line
RenderRow(r, i) ==
    IF r.kind = "row"
    THEN JobIdAt(i) \o <<"|">> \o RenderNodeList(r.nodelist) \o <<"|">> \o RenderGres(r.gres)
    ELSE IF r.kind = "short" THEN JobIdAt(i) \o <<"|">> \o RenderNodeList(r.nodelist)
    ELSE <<" ">>

RenderRows(rows) ==
    Join([i \in DOMAIN rows |-> RenderRow(rows[i], i)], <<"\n">>) \o <<"\n">>

Row(nl, g) == [kind |-> "row", nodelist |-> nl, gres |-> g]

\* rows of every node-list form, each with a few GPU requests
WideRows ==
    {Row(nl, [kind |-> "gpu:T:N", type |-> <<"a", "1", "0", "0">>, count |-> 5]) :
        nl \in BracketLists \cup RawLists}
    \cup {Row(nl, g) : nl \in PlainLists, g \in GresFields}

\* the rows that multi-row outputs are made of
NarrowRows ==
    {Row(nl, g) :
        nl \in {[kind |-> "plain", names |-> <<<<"n", "1">>, <<"n", "2">>>>],
                [kind |-> "bracket", prefix |-> <<"n">>,
                 parts |-> <<[kind |-> "range", start |-> <<"1">>, end |-> <<"3">>]>>]},
        g \in {[kind |-> "gpu:T:N", type |-> <<"v">>, count |-> 3],
               [kind |-> "gpu:N", type |-> <<>>, count |-> 0]}}
    \cup {Row([kind |-> "raw", text |-> <<"n", "[", "a", "-", "b", "]">>],
              [kind |-> "gpu:N", type |-> <<>>, count |-> 2]),
          [kind |-> "short", nodelist |-> [kind |-> "plain", names |-> <<<<"n", "1">>>>]],
          [kind |-> "blank"]}

\* the sequences over S of length n
RECURSIVE SeqsOfLen(_, _)
SeqsOfLen(S, n) ==
    IF n = 0 THEN {<<>>} ELSE {Append(q, x) : q \in SeqsOfLen(S, n - 1), x \in S}

SeqsUpTo(S, n) == UNION {SeqsOfLen(S, k) : k \in 0..n}

SqueueOk(rows) == [status |-> "ok", rows |-> rows, out |-> RenderRows(rows)]

SqueueFailures ==
    {[status |-> st, rows |-> <<>>, out |-> <<>>] :
        st \in {"CalledProcessError", "FileNotFoundError"}}

SqueueWide ==
    {SqueueOk(<<r>>) : r \in WideRows}
    \cup {SqueueOk(rows) : rows \in SeqsUpTo(NarrowRows, MaxRows)}
    \cup {[status |-> "ok", rows |-> <<>>, out |-> <<>>]}
    \cup SqueueFailures

NoSqueue == [status |-> "unused", rows |-> <<>>, out |-> <<>>]

NoScontrol == [status |-> "unused", blocks |-> <<>>, out |-> <<>>]

\* --slots when it is not given, and display_nodes' default
DefaultSlots == 8

\* no --job (argparse gives None, which `if args.job` treats as the empty string)
NoArgs == [include_down |-> FALSE, slots |-> DefaultSlots, job |-> <<>>, show_job_ids |-> TRUE]

\* the process has not ended: it has no exit status
NoExit == -1

\* display_nodes has built no table
NoTable == [titles |-> <<>>, rows |-> <<>>]

\* sinfo, sacctmgr and the defaults file when wrun does not run
NoSinfo == [status |-> "unused", lines |-> <<>>, out |-> <<>>]

NoSacctmgr == [status |-> "unused", out |-> <<>>]

NoDefaultsFile == [state |-> "missing", data |-> <<>>]

NoAnswers == [installed |-> FALSE]

\* wrun does not run
WrunIdle ==
    /\ sinfo = NoSinfo
    /\ sacctmgr = NoSacctmgr
    /\ defaults_file = NoDefaultsFile
    /\ answers = NoAnswers
    /\ partition_infos = <<>>
    /\ resolved = None
    /\ commands = <<>>
    /\ files = <<>>

-----------------------------------------------------------------------------
(* get_job_gpu_mapping called on its own *)

InitMapping ==
    /\ pc = "get_job_gpu_mapping"
    /\ squeue \in SqueueWide
    /\ scontrol = NoScontrol
    /\ args = NoArgs
    /\ parse_data = [block |-> None, text |-> <<>>]
    /\ parse_node = None
    /\ nodes_data = <<>>
    /\ nodes = <<>>
    /\ job_mapping = <<>>
    /\ table = NoTable
    /\ exc = None
    /\ stdout = <<>>
    /\ stderr = <<>>
    /\ exit_code = NoExit
    /\ WrunIdle

\* the call returns r.val, or r leaves it as an exception
ReturnMapping(r) ==
    IF IsExc(r)
    THEN /\ exc' = r
         /\ pc' = "raised"
         /\ UNCHANGED job_mapping
    ELSE /\ job_mapping' = r.val
         /\ pc' = "returned"
         /\ UNCHANGED exc

CallGetJobGpuMapping ==
    /\ pc = "get_job_gpu_mapping"
    /\ ReturnMapping(GetJobGpuMapping(squeue))
    /\ UNCHANGED <<args, scontrol, squeue, parse_data, parse_node, nodes_data, nodes,
                   table, stdout, stderr, exit_code>>
    /\ UNCHANGED wrun_vars

NextMapping == CallGetJobGpuMapping

SpecMapping == InitMapping /\ [][NextMapping]_vars

-----------------------------------------------------------------------------
(* Properties of get_job_gpu_mapping *)

\* the rows of the squeue output that have all three fields
FullRows == {i \in DOMAIN squeue.rows : squeue.rows[i].kind = "row"}

\* what the code resolves the row's GPU count to
ResolvedCount(i) == ResolveGpu(RenderGres(squeue.rows[i].gres)).gpu_count

\* what the code expands the row's node list to
Expanded(i) == ExpandNodeList(RenderNodeList(squeue.rows[i].nodelist))

\* the GPU counts recorded for job_id on node name, in order
JobCounts(mapping, name, job_id) ==
    LET claims == DictGet(mapping, name, <<>>)
        Mine(c) == c[1] = job_id
        mine == SelectSeq(claims, Mine)
    IN  [j \in DOMAIN mine |-> mine[j][3]]

RECURSIVE SumSeq(_)
SumSeq(q) == IF q = <<>> THEN 0 ELSE Head(q) + SumSeq(Tail(q))

\* all the GPUs recorded for job_id
JobTotal(mapping, job_id) ==
    SumSeq([k \in DOMAIN mapping |-> SumSeq(JobCounts(mapping, mapping[k].k, job_id))])

\* floor(G/n) + (1 if i < G mod n else 0), from the definition of quotient and
\* remainder
Share(G, n, i) ==
    LET q == CHOOSE x \in 0..G : x * n <= G /\ G < (x + 1) * n
    IN  q + (IF i < G - q * n THEN 1 ELSE 0)

\* the shares of the list positions that name x, in list order
RECURSIVE SharesAt(_, _, _, _)
SharesAt(G, names, x, idx) ==
    IF idx >= Len(names) THEN <<>>
    ELSE (IF names[idx + 1] = x THEN <<Share(G, Len(names), idx)>> ELSE <<>>)
         \o SharesAt(G, names, x, idx + 1)

\* C1: a row with G >= 1 GPUs and n >= 1 expanded names gives the node at list
\* position i exactly floor(G/n) + (1 if i < G mod n else 0) GPUs, and the counts
\* recorded for the job sum to G
C1_Distribution ==
    pc = "returned" =>
        \A i \in FullRows :
            (ResolvedCount(i) >= 1 /\ ~IsExc(Expanded(i)) /\ Len(Expanded(i).val) >= 1) =>
                /\ \A x \in Range(Expanded(i).val) :
                       JobCounts(job_mapping, x, JobIdAt(i))
                           = SharesAt(ResolvedCount(i), Expanded(i).val, x, 0)
                /\ JobTotal(job_mapping, JobIdAt(i)) = ResolvedCount(i)

\* 5 GPUs over [a, b, c] were recorded as a:2, b:2, c:1
C1_Witness ==
    /\ pc = "returned"
    /\ Len(squeue.rows) = 1
    /\ squeue.rows[1].kind = "row"
    /\ ResolvedCount(1) = 5
    /\ Expanded(1) = [val |-> <<<<"a">>, <<"b">>, <<"c">>>>]
    /\ JobCounts(job_mapping, <<"a">>, JobIdAt(1)) = <<2>>
    /\ JobCounts(job_mapping, <<"b">>, JobIdAt(1)) = <<2>>
    /\ JobCounts(job_mapping, <<"c">>, JobIdAt(1)) = <<1>>

\* the names a bracket expression stands for, from its parts
RECURSIVE ExpectedRange(_, _, _, _)
ExpectedRange(prefix, width, lo, hi) ==
    IF lo > hi THEN <<>>
    ELSE <<prefix \o ZFill(Str(lo), width)>> \o ExpectedRange(prefix, width, lo + 1, hi)

RECURSIVE ExpectedNames(_, _)
ExpectedNames(prefix, parts) ==
    IF parts = <<>> THEN <<>>
    ELSE (IF Head(parts).kind = "single"
          THEN <<prefix \o Head(parts).num>>
          ELSE ExpectedRange(prefix, Len(Head(parts).start),
                             DigitsVal(Head(parts).start), DigitsVal(Head(parts).end)))
         \o ExpectedNames(prefix, Tail(parts))

\* the positions of q that hold x
Occurrences(q, x) == {j \in DOMAIN q : q[j] = x}

\* q without its repeated elements, first occurrences kept in order
RECURSIVE Dedup(_)
Dedup(q) ==
    IF q = <<>> THEN <<>>
    ELSE LET front == SubSeq(q, 1, Len(q) - 1)
             last == q[Len(q)]
         IN  IF Occurrences(front, last) # {} THEN Dedup(front)
             ELSE Append(Dedup(front), last)

\* C2: a bracketed expression <prefix>[<spec>] with an alphabetic prefix is
\* expanded into one name per listed number and per integer of each range
\* start-end (inclusive, ascending, in listed order), each range name zero-padded
\* to the width of <start>: the job is recorded once per such name, on the node of
\* that name, and on no other node
C2_BracketExpansion ==
    pc = "returned" =>
        \A i \in FullRows :
            (squeue.rows[i].nodelist.kind = "bracket" /\ ResolvedCount(i) >= 1) =>
                LET nl == squeue.rows[i].nodelist
                    expected == ExpectedNames(nl.prefix, nl.parts)
                IN  /\ \A x \in DictKeys(job_mapping) \cup Range(expected) :
                           Len(JobCounts(job_mapping, x, JobIdAt(i)))
                               = Cardinality(Occurrences(expected, x))
                    /\ Len(squeue.rows) = 1 =>
                           [k \in DOMAIN job_mapping |-> job_mapping[k].k] = Dedup(expected)

\* hgpn[01-03,05] was expanded to hgpn01, hgpn02, hgpn03, hgpn05
C2_Witness ==
    /\ pc = "returned"
    /\ Len(squeue.rows) = 1
    /\ squeue.rows[1].kind = "row"
    /\ RenderNodeList(squeue.rows[1].nodelist)
           = <<"h", "g", "p", "n", "[", "0", "1", "-", "0", "3", ",", "0", "5", "]">>
    /\ ResolvedCount(1) >= 1
    /\ [k \in DOMAIN job_mapping |-> job_mapping[k].k]
           = << <<"h", "g", "p", "n", "0", "1">>, <<"h", "g", "p", "n", "0", "2">>,
                <<"h", "g", "p", "n", "0", "3">>, <<"h", "g", "p", "n", "0", "5">> >>

\* C5: a row whose GPU count resolves to 0 contributes nothing: its job id is in
\* no node's claim list, and no node key exists without a claim
C5_ZeroGpuJobAbsent ==
    pc = "returned" =>
        /\ \A i \in FullRows :
               ResolvedCount(i) = 0 =>
                   \A k \in DOMAIN job_mapping :
                       \A j \in DOMAIN job_mapping[k].v :
                           job_mapping[k].v[j][1] # JobIdAt(i)
        /\ \A k \in DOMAIN job_mapping :
               \E j \in DOMAIN job_mapping[k].v :
                   \E i \in FullRows :
                       /\ job_mapping[k].v[j][1] = JobIdAt(i)
                       /\ ResolvedCount(i) >= 1

\* a zero-GPU row was read between rows with GPUs, and only those were recorded
C5_Witness ==
    /\ pc = "returned"
    /\ Len(squeue.rows) = 2
    /\ 1 \in FullRows /\ 2 \in FullRows
    /\ ResolvedCount(1) = 0
    /\ Len(Expanded(1).val) >= 1
    /\ ResolvedCount(2) >= 1
    /\ job_mapping # <<>>

-----------------------------------------------------------------------------
(* parse_node_data *)

\* a float is the exact fraction num/den.  Formatting rounds half up on that
\* fraction (Python rounds the binary value half to even; the two differ only
\* on ties)
Float(num, den) == [num |-> num, den |-> den]

RECURSIVE Pow10(_)
Pow10(n) == IF n = 0 THEN 1 ELSE 10 * Pow10(n - 1)

\* float(s) from the pieces of s.split('.'): <digits>, <digits>.<digits>,
\* <digits>. or .<digits>; anything else raises ValueError.  (float also accepts
\* a sign, an exponent, inf and nan; no modelled input has them.)
FloatOfPieces(p) ==
    IF Len(p) = 1 /\ AllDigits(p[1]) THEN Float(DigitsVal(p[1]), 1)
    ELSE IF /\ Len(p) = 2
            /\ p[1] \o p[2] # <<>>
            /\ \A i \in DOMAIN (p[1] \o p[2]) : IsDigit((p[1] \o p[2])[i])
    THEN Float(DigitsVal(p[1] \o p[2]), Pow10(Len(p[2])))
    ELSE Raise("ValueError")

PyFloat(s) == FloatOfPieces(Split(s, <<".">>))

\* a / b
TrueDiv(a, b) == IF b = 0 THEN Raise("ZeroDivisionError") ELSE Float(a, b)

\* f"{x:.<d>f}" from scaled = round(x * 10^d)
FormatScaled(scaled, d) ==
    Str(scaled \div Pow10(d)) \o <<".">> \o ZFill(Str(scaled % Pow10(d)), d)

Format(x, d) == FormatScaled((2 * x.num * Pow10(d) + x.den) \div (2 * x.den), d)

\* Percentage without the guard: (alloc / total) * 100 whatever total is
Percentage_NoGuard(alloc, total) == TrueDiv(alloc * 100, total)

\* (alloc / total) * 100 if total > 0 else 0
Percentage(alloc, total) ==
    IF total > 0 THEN TrueDiv(alloc * 100, total) ELSE Float(0, 1)

RE_NodeName == <<Lit(<<"N", "o", "d", "e", "N", "a", "m", "e", "=">>), Group("\\S", 1)>>

RE_RealMemory == <<Lit(<<"R", "e", "a", "l", "M", "e", "m", "o", "r", "y", "=">>), Group("\\d", 1)>>

RE_AllocMem == <<Lit(<<"A", "l", "l", "o", "c", "M", "e", "m", "=">>), Group("\\d", 1)>>

RE_CPUAlloc == <<Lit(<<"C", "P", "U", "A", "l", "l", "o", "c", "=">>), Group("\\d", 1)>>

RE_CPUTot == <<Lit(<<"C", "P", "U", "T", "o", "t", "=">>), Group("\\d", 1)>>

RE_CPULoad == <<Lit(<<"C", "P", "U", "L", "o", "a", "d", "=">>), Group("\\S", 1)>>

\* r"CfgTRES=([^\n]*)"
RE_CfgTRES == <<Lit(<<"C", "f", "g", "T", "R", "E", "S", "=">>), Group("[^\\n]", 0)>>

\* r"AllocTRES=([^\n]*)"
RE_AllocTRES == <<Lit(<<"A", "l", "l", "o", "c", "T", "R", "E", "S", "=">>), Group("[^\\n]", 0)>>

\* r"gres/gpu=(\d+)"
RE_GresGpu == <<Lit(<<"g", "r", "e", "s", "/", "g", "p", "u", "=">>), Group("\\d", 1)>>

\* r"gres/gpu:([a-zA-Z0-9]+)=(\d+)"
RE_GresGpuType ==
    <<Lit(<<"g", "r", "e", "s", "/", "g", "p", "u", ":">>), Group("[a-zA-Z0-9]", 1), Lit(<<"=">>), Group("\\d", 1)>>

\* r"Gres=(\S+)"
RE_Gres == <<Lit(<<"G", "r", "e", "s", "=">>), Group("\\S", 1)>>

\* r"gpu[^:]*:(\d+)"
RE_GpuBare == <<Lit(<<"g", "p", "u">>), Run("[^:]", 0),
                Lit(<<":">>), Group("\\d", 1)>>

\* r"GresUsed=\S*?gpu:(\d+)"
RE_GresUsed == <<Lit(<<"G", "r", "e", "s", "U", "s", "e", "d", "=">>), Lazy("\\S"), Lit(<<"g", "p", "u", ":">>), Group("\\d", 1)>>

RE_State == <<Lit(<<"S", "t", "a", "t", "e", "=">>), Group("\\S", 1)>>

RE_Partitions == <<Lit(<<"P", "a", "r", "t", "i", "t", "i", "o", "n", "s", "=">>), Group("\\S", 1)>>

\* int(m.group(1)) if m else 0
IntGroup(m) == IF m = None THEN 0 ELSE PyInt(m.groups[1])

\* m.group(1) if m else '': the default is dropped
StrGroup_NoDefault(m, default) == IF m = None THEN <<>> ELSE m.groups[1]

\* m.group(1) if m else default
StrGroup(m, default) == IF m = None THEN default ELSE m.groups[1]

\* for gpu_type, count in matches: by_type[gpu_type] = int(count)
RECURSIVE SetCounts(_, _)
SetCounts(by_type, matches) ==
    IF matches = <<>> THEN by_type
    ELSE SetCounts(DictSet(by_type, Head(matches)[1], PyInt(Head(matches)[2])),
                   Tail(matches))

\* the text after CfgTRES= / AllocTRES= up to the end of the line; without the
\* token nothing is searched, which is what searching the empty text gives
TresText(m) == StrGroup(m, <<>>)

\* gpu_total and gpu_total_by_type as CfgTRES sets them
CfgTotals(cfg) ==
    [total |-> IntGroup(ReSearch(RE_GresGpu, cfg)),
     by_type |-> SetCounts(<<>>, ReFindAll(RE_GresGpuType, cfg))]

\* for gpu_type, count in gres_type_matches: by_type[...] = ...; gpu_total += ...
RECURSIVE AddGresTypes(_, _)
AddGresTypes(acc, matches) ==
    IF matches = <<>> THEN acc
    ELSE AddGresTypes([total |-> acc.total + PyInt(Head(matches)[2]),
                       by_type |-> DictSet(acc.by_type, Head(matches)[1],
                                           PyInt(Head(matches)[2]))],
                      Tail(matches))

\* the fallback to gpu:COUNT when the typed entries of Gres gave nothing
GresBare(acc, gres) ==
    IF acc.total = 0
    THEN [total |-> IntGroup(ReSearch(RE_GpuBare, gres)), by_type |-> acc.by_type]
    ELSE acc

\* the branch `if gres_match`
GresFallback(acc, gres_match) ==
    IF gres_match = None THEN acc
    ELSE GresBare(AddGresTypes(acc, ReFindAll(RE_GpuTypeCount, gres_match.groups[1])),
                  gres_match.groups[1])

\* gpu_total and gpu_total_by_type after `if gpu_total == 0`
GpuTotals(acc, data) ==
    IF acc.total = 0 THEN GresFallback(acc, ReSearch(RE_Gres, data)) ELSE acc

\* gpu_alloc after `if gpu_alloc == 0`
GpuAlloc(gpu_alloc, data) ==
    IF gpu_alloc = 0 THEN IntGroup(ReSearch(RE_GresUsed, data)) ELSE gpu_alloc

\* gpu_available_details with `available_count >= 0` as its test
RECURSIVE AvailableDetails_ZeroListed(_, _, _)
AvailableDetails_ZeroListed(total_by_type, alloc_by_type, i) ==
    IF i > Len(total_by_type) THEN <<>>
    ELSE (IF total_by_type[i].v - DictGet(alloc_by_type, total_by_type[i].k, 0) >= 0
          THEN <<total_by_type[i].k \o <<"=">>
                 \o Str(total_by_type[i].v - DictGet(alloc_by_type, total_by_type[i].k, 0))>>
          ELSE <<>>)
         \o AvailableDetails_ZeroListed(total_by_type, alloc_by_type, i + 1)

\* gpu_available_details
RECURSIVE AvailableDetails(_, _, _)
AvailableDetails(total_by_type, alloc_by_type, i) ==
    IF i > Len(total_by_type) THEN <<>>
    ELSE (IF total_by_type[i].v - DictGet(alloc_by_type, total_by_type[i].k, 0) > 0
          THEN <<total_by_type[i].k \o <<"=">>
                 \o Str(total_by_type[i].v - DictGet(alloc_by_type, total_by_type[i].k, 0))>>
          ELSE <<>>)
         \o AvailableDetails(total_by_type, alloc_by_type, i + 1)

\* the returned dict, or the exception of a conversion
NodeDict(node_name, state, partitions, cpu_alloc, cpu_total, cpu_load, cpu_usage_percentage, alloc_memory, real_memory, memory_usage_percentage, gpu_alloc, totals, gpu_alloc_by_type) ==
    IF IsExc(memory_usage_percentage) THEN memory_usage_percentage
    ELSE IF IsExc(cpu_load) THEN cpu_load
    ELSE IF IsExc(cpu_usage_percentage) THEN cpu_usage_percentage
    ELSE [NodeName |-> node_name,
          State |-> state,
          Partitions |-> partitions,
          CPUs |-> Str(cpu_alloc) \o <<" ", "A", "l", "l", "o", "c", " ", "(">> \o Format(cpu_usage_percentage, 1)
                   \o <<"%", ")", " ", "/", " ">> \o Str(cpu_total) \o <<" ", "T", "o", "t", "a", "l">>,
          Memory |-> Str(alloc_memory \div 1024) \o <<" ", "G", "B", " ", "U", "s", "e", "d", " ", "/", " ">>
                     \o Str(real_memory \div 1024) \o <<" ", "G", "B", " ", "(">>
                     \o Format(memory_usage_percentage, 1) \o <<"%", ")">>,
          CPUAlloc |-> cpu_alloc,
          CPUTot |-> cpu_total,
          CPULoad |-> cpu_load,
          GPUAlloc |-> gpu_alloc,
          GPUTot |-> totals.total,
          GPUDetails |-> Join(AvailableDetails(totals.by_type, gpu_alloc_by_type, 1), <<",", " ">>),
          GPUAllocByType |-> gpu_alloc_by_type]

\* parse_node_data from its integers on
NodeOf(data, node_name, cpu_alloc, cpu_total, alloc_memory, real_memory, alloc) ==
    NodeDict(node_name,
             StrGroup(ReSearch(RE_State, data), <<"U", "N", "K", "N", "O", "W", "N">>),
             StrGroup(ReSearch(RE_Partitions, data), <<"U", "N", "K", "N", "O", "W", "N">>),
             cpu_alloc, cpu_total,
             IF ReSearch(RE_CPULoad, data) = None THEN Float(0, 1)
             ELSE PyFloat(ReSearch(RE_CPULoad, data).groups[1]),
             Percentage(cpu_alloc, cpu_total),
             alloc_memory, real_memory,
             Percentage(alloc_memory, real_memory),
             GpuAlloc(IntGroup(ReSearch(RE_GresGpu, alloc)), data),
             GpuTotals(CfgTotals(TresText(ReSearch(RE_CfgTRES, data))), data),
             SetCounts(<<>>, ReFindAll(RE_GresGpuType, alloc)))

\* parse_node_data after the name was found
ParseNamed(data, node_name_match) ==
    NodeOf(data, node_name_match.groups[1],
           IntGroup(ReSearch(RE_CPUAlloc, data)),
           IntGroup(ReSearch(RE_CPUTot, data)),
           IntGroup(ReSearch(RE_AllocMem, data)),
           IntGroup(ReSearch(RE_RealMemory, data)),
           TresText(ReSearch(RE_AllocTRES, data)))

\* ParseNodeMatch that takes the whole block as the name when none is found
ParseNodeMatch_NoCheck(data, node_name_match) ==
    IF node_name_match = None THEN ParseNamed(data, [groups |-> <<data>>, end |-> 1])
    ELSE ParseNamed(data, node_name_match)

ParseNodeMatch(data, node_name_match) ==
    IF node_name_match = None THEN None ELSE ParseNamed(data, node_name_match)

\* parse_node_data(data): the dict, None, or the exception that leaves it
ParseNodeData(data) == ParseNodeMatch(data, ReSearch(RE_NodeName, data))

-----------------------------------------------------------------------------
(* What scontrol can print.  A descriptor block is kept in two forms: its     *)
(* tokens (an absent token is <<>>, a present one <<value>>) and the text the *)
(* program reads.  The program reads only the text.                          *)

MaxTres == 2     \* an untyped gres/gpu=<N> of CfgTRES / AllocTRES has N in 0..MaxTres

Tres(untyped, typed) == [untyped |-> untyped, typed |-> typed]

\* the block of tests/test_node_info.py
SampleBlock ==
    [NodeName |-> <<<<"h", "g", "p", "n", "0", "2">>>>,
     CPUAlloc |-> <<<<"3", "2">>>>, CPUTot |-> <<<<"6", "4">>>>, CPULoad |-> <<<<"2", "0", ".", "0", "0">>>>,
     RealMemory |-> <<<<"1", "9", "1", "9", "9", "7">>>>, AllocMem |-> <<<<"1", "0", "2", "4">>>>,
     CfgTRES |-> <<Tres(<<8>>, <<>>)>>, AllocTRES |-> <<Tres(<<4>>, <<>>)>>,
     Gres |-> <<>>, GresUsed |-> <<>>,
     State |-> <<<<"M", "I", "X", "E", "D">>>>, Partitions |-> <<<<"g", "p", "u", "x">>>>,
     layout |-> "lines"]

\* KEY=value, or nothing when the token is absent
Token(key, value) == IF value = <<>> THEN <<>> ELSE <<key \o <<"=">> \o value[1]>>

RenderTyped(typed) ==
    [i \in DOMAIN typed |-> <<"g", "r", "e", "s", "/", "g", "p", "u", ":">> \o typed[i][1] \o <<"=">> \o Str(typed[i][2])]

RenderUntyped(untyped) ==
    IF untyped = <<>> THEN <<>> ELSE <<<<"g", "r", "e", "s", "/", "g", "p", "u", "=">> \o Str(untyped[1])>>

\* cpu=4,gres/gpu=<N>,gres/gpu:<type>=<count>,...
RenderTres(t) ==
    IF t = <<>> THEN <<>>
    ELSE <<Join(<<<<"c", "p", "u", "=", "4">>>> \o RenderUntyped(t[1].untyped) \o RenderTyped(t[1].typed),
                <<",">>)>>

\* the tokens of one line, separated by blanks; no line when all are absent
Line(tokens) == IF tokens = <<>> THEN <<>> ELSE <<Join(tokens, <<" ">>)>>

BlockLines(b) ==
    Line(Token(<<"N", "o", "d", "e", "N", "a", "m", "e">>, b.NodeName) \o (IF b.NodeName = <<>> THEN <<>> ELSE <<<<"A", "r", "c", "h", "=", "x">>>>))
    \o Line(Token(<<"C", "P", "U", "A", "l", "l", "o", "c">>, b.CPUAlloc) \o Token(<<"C", "P", "U", "T", "o", "t">>, b.CPUTot)
            \o Token(<<"C", "P", "U", "L", "o", "a", "d">>, b.CPULoad))
    \o Line(Token(<<"G", "r", "e", "s">>, b.Gres))
    \o Line(Token(<<"G", "r", "e", "s", "U", "s", "e", "d">>, b.GresUsed))
    \o Line(Token(<<"R", "e", "a", "l", "M", "e", "m", "o", "r", "y">>, b.RealMemory) \o Token(<<"A", "l", "l", "o", "c", "M", "e", "m">>, b.AllocMem))
    \o Line(Token(<<"S", "t", "a", "t", "e">>, b.State))
    \o Line(Token(<<"P", "a", "r", "t", "i", "t", "i", "o", "n", "s">>, b.Partitions))
    \o Line(Token(<<"C", "f", "g", "T", "R", "E", "S">>, RenderTres(b.CfgTRES)))
    \o Line(Token(<<"A", "l", "l", "o", "c", "T", "R", "E", "S">>, RenderTres(b.AllocTRES)))

\* scontrol prints a block on several indented lines, or (-o) on one
RenderBlock(b) ==
    IF b.layout = "lines" THEN Join(BlockLines(b), <<"\n", " ", " ", " ">>)
    ELSE Join(BlockLines(b), <<" ">>)

Block(b) == [block |-> b, text |-> RenderBlock(b)]

OptCounts == {<<>>} \cup {<<n>> : n \in 0..MaxTres}

GresTexts == {<<>>, <<<<"g", "p", "u", ":", "a", "1", "0", "0", ":", "4">>>>, <<<<"g", "p", "u", ":", "3">>>>, <<<<"(", "n", "u", "l", "l", ")">>>>}

GresUsedTexts == {<<>>, <<<<"g", "p", "u", ":", "3", "0", "9", "0", ":", "0", "(", "I", "D", "X", ":", "N", "/", "A", ")">>>>, <<<<"g", "p", "u", ":", "a", "1", "0", "0", ":", "1", "(", "I", "D", "X", ":", "0", ")">>>>, <<<<"g", "p", "u", ":", "1">>>>}

\* blocks that differ in how the GPUs are reported
GpuBlocks ==
    {[SampleBlock EXCEPT !.CfgTRES = <<Tres(<<t>>, <<>>)>>, !.AllocTRES = <<Tres(<<a>>, <<>>)>>,
                         !.Gres = g, !.GresUsed = u, !.layout = l] :
        t \in 0..MaxTres, a \in 0..MaxTres, g \in GresTexts, u \in GresUsedTexts,
        l \in {"lines", "oneline"}}

\* blocks that differ in their memory and CPU tokens
UsageBlocks ==
    {[SampleBlock EXCEPT !.RealMemory = rm, !.AllocMem = am, !.CPUTot = ct, !.CPUAlloc = ca,
                         !.CPULoad = ld] :
        ld \in {<<<<"2", "0", ".", "0", "0">>>>, <<<<"N", "/", "A">>>>},
        rm \in {<<>>, <<<<"0">>>>, <<<<"2", "0", "4", "8">>>>, <<<<"1", "9", "1", "9", "9", "7">>>>},
        am \in {<<>>, <<<<"0">>>>, <<<<"1", "0", "2", "4">>>>},
        ct \in {<<>>, <<<<"0">>>>, <<<<"6", "4">>>>},
        ca \in {<<>>, <<<<"0">>>>, <<<<"3", "2">>>>}}

CPULoads == {<<>>, <<<<"2", "0", ".", "0", "0">>>>, <<<<"0", ".", "5">>>>, <<<<"7">>>>, <<<<"N", "/", "A">>>>}

States ==
    {<<>>, <<<<"I", "D", "L", "E">>>>, <<<<"M", "I", "X", "E", "D">>>>, <<<<"A", "L", "L", "O", "C", "A", "T", "E", "D">>>>, <<<<"M", "I", "X", "E", "D", "+", "D", "R", "A", "I", "N">>>>,
     <<<<"I", "D", "L", "E", "+", "D", "R", "A", "I", "N">>>>, <<<<"D", "O", "W", "N", "*">>>>, <<<<"D", "r", "a", "i", "n", "e", "d">>>>, <<<<"d", "o", "w", "n">>>>, <<<<"D", "r", "A", "i", "N", "i", "N", "g">>>>}

\* blocks that differ in their load, state and partitions
StateBlocks ==
    {[SampleBlock EXCEPT !.CPULoad = l, !.State = s, !.Partitions = p] :
        l \in CPULoads, s \in States, p \in {<<>>, <<<<"g", "p", "u", "x", ",", "d", "e", "b", "u", "g">>>>}}

\* blocks without a name: separators, headers, fragments
NamelessBlocks ==
    {[b EXCEPT !.NodeName = <<>>] :
        b \in {SampleBlock,
               [SampleBlock EXCEPT !.CPULoad = <<<<"N", "/", "A">>>>],
               [SampleBlock EXCEPT !.RealMemory = <<<<"0">>>>, !.CPUTot = <<<<"0">>>>],
               [SampleBlock EXCEPT !.layout = "oneline"],
               [SampleBlock EXCEPT !.CPUAlloc = <<>>, !.CPUTot = <<>>, !.CPULoad = <<>>,
                                   !.RealMemory = <<>>, !.AllocMem = <<>>, !.CfgTRES = <<>>,
                                   !.AllocTRES = <<>>, !.State = <<>>, !.Partitions = <<>>]}}
    \cup {[SampleBlock EXCEPT !.NodeName = <<>>, !.State = s] : s \in States}

\* the typed sub-tokens gres/gpu:<type>=<count> of a CfgTRES
TypedTres ==
    {<<>>, << <<<<"a", "1", "0", "0">>, 2>> >>, << <<<<"a", "1", "0", "0">>, 1>>, <<<<"v">>, 1>> >>}

\* blocks that differ in the typed and untyped GPU sub-tokens of CfgTRES and
\* AllocTRES, CfgTRES being absent in some
TypedBlocks ==
    {[SampleBlock EXCEPT !.CfgTRES = c, !.AllocTRES = <<Tres(ua, ta)>>, !.Gres = g] :
        c \in {<<>>} \cup {<<Tres(ut, tt)>> : ut \in OptCounts, tt \in TypedTres},
        ua \in {<<>>, <<1>>},
        ta \in {<<>>, << <<<<"a", "1", "0", "0">>, 1>> >>, << <<<<"a", "1", "0", "0">>, 3>> >>},
        g \in GresTexts}

\* blocks with a name and few other tokens
SparseBlocks ==
    {[SampleBlock EXCEPT !.CPUAlloc = <<>>, !.CPUTot = ct, !.CPULoad = ld, !.RealMemory = <<>>,
                         !.AllocMem = <<>>, !.CfgTRES = c, !.AllocTRES = a, !.State = s,
                         !.Partitions = p, !.layout = l] :
        ct \in {<<>>, <<<<"6", "4">>>>},
        ld \in {<<>>, <<<<"0", ".", "5">>>>},
        c \in {<<>>, <<Tres(<<>>, <<>>)>>, <<Tres(<<2>>, <<>>)>>},
        a \in {<<>>, <<Tres(<<>>, <<>>)>>, <<Tres(<<1>>, <<>>)>>},
        s \in {<<>>, <<<<"I", "D", "L", "E", "+", "D", "R", "A", "I", "N">>>>},
        p \in {<<>>, <<<<"g", "p", "u", "x", ",", "d", "e", "b", "u", "g">>>>},
        l \in {"lines", "oneline"}}

ParseInputs ==
    {Block(b) : b \in GpuBlocks \cup TypedBlocks \cup UsageBlocks \cup StateBlocks
                      \cup NamelessBlocks \cup SparseBlocks}

-----------------------------------------------------------------------------
(* parse_node_data called on its own *)

InitParse ==
    /\ pc = "parse_node_data"
    /\ parse_data \in ParseInputs
    /\ parse_node = None
    /\ squeue = NoSqueue
    /\ scontrol = NoScontrol
    /\ args = NoArgs
    /\ nodes_data = <<>>
    /\ nodes = <<>>
    /\ job_mapping = <<>>
    /\ table = NoTable
    /\ exc = None
    /\ stdout = <<>>
    /\ stderr = <<>>
    /\ exit_code = NoExit
    /\ WrunIdle

\* the call returns r (a dict or None), or r leaves it as an exception
ReturnNode(r) ==
    IF IsExc(r)
    THEN /\ exc' = r
         /\ pc' = "raised"
         /\ UNCHANGED parse_node
    ELSE /\ parse_node' = r
         /\ pc' = "returned"
         /\ UNCHANGED exc

CallParseNodeData ==
    /\ pc = "parse_node_data"
    /\ ReturnNode(ParseNodeData(parse_data.text))
    /\ UNCHANGED <<args, scontrol, squeue, parse_data, nodes_data, nodes, job_mapping,
                   table, stdout, stderr, exit_code>>
    /\ UNCHANGED wrun_vars

NextParse == CallParseNodeData

SpecParse == InitParse /\ [][NextParse]_vars

-----------------------------------------------------------------------------
(* Properties of parse_node_data *)

\* the value of an integer token of the blocks above; an absent token counts 0
TokenInt(v) ==
    IF v = <<>> THEN 0
    ELSE CASE v[1] = <<"0">> -> 0
           [] v[1] = <<"3", "2">> -> 32
           [] v[1] = <<"6", "4">> -> 64
           [] v[1] = <<"1", "0", "2", "4">> -> 1024
           [] v[1] = <<"2", "0", "4", "8">> -> 2048
           [] v[1] = <<"1", "9", "1", "9", "9", "7">> -> 191997

\* the CPULoad tokens that are numbers, and their values
NumericLoads == {<<"2", "0", ".", "0", "0">>, <<"0", ".", "5">>, <<"7">>}

TokenLoad(v) ==
    CASE v = <<"2", "0", ".", "0", "0">> -> Float(20, 1)
      [] v = <<"0", ".", "5">> -> Float(1, 2)
      [] v = <<"7">> -> Float(7, 1)

SameFloat(x, y) == x.num * y.den = y.num * x.den

ParseEnded == pc \in {"returned", "raised"}

\* the block carries every token C3 names, CPULoad being a number
C3_Case ==
    /\ ParseEnded
    /\ parse_data.block.NodeName # <<>>
    /\ parse_data.block.CPUAlloc # <<>>
    /\ parse_data.block.CPUTot # <<>>
    /\ parse_data.block.CPULoad # <<>>
    /\ parse_data.block.CPULoad[1] \in NumericLoads
    /\ parse_data.block.CfgTRES # <<>>
    /\ parse_data.block.CfgTRES[1].untyped # <<>>
    /\ parse_data.block.AllocTRES # <<>>
    /\ parse_data.block.AllocTRES[1].untyped # <<>>

\* C3: for every block that carries NodeName=, CPUAlloc=, CPUTot=, CPULoad=,
\* a CfgTRES with an untyped gres/gpu=T and an AllocTRES with an untyped
\* gres/gpu=A, parse_node_data returns a record whose NodeName, CPUAlloc, CPUTot
\* and CPULoad are the token values and whose GPUTot is T and GPUAlloc is A.
C3_TokensToRecord ==
    C3_Case =>
        /\ pc = "returned"
        /\ parse_node # None
        /\ parse_node.NodeName = parse_data.block.NodeName[1]
        /\ parse_node.CPUAlloc = TokenInt(parse_data.block.CPUAlloc)
        /\ parse_node.CPUTot = TokenInt(parse_data.block.CPUTot)
        /\ SameFloat(parse_node.CPULoad, TokenLoad(parse_data.block.CPULoad[1]))
        /\ parse_node.GPUTot = parse_data.block.CfgTRES[1].untyped[1]
        /\ parse_node.GPUAlloc = parse_data.block.AllocTRES[1].untyped[1]

ZeroOrAbsent(v) == v = <<>> \/ v = <<<<"0">>>>

\* C8: parse_node_data never divides by zero: for a block with a NodeName whose
\* RealMemory is 0 or absent the record shows a memory usage of 0.0%, and for
\* one whose CPUTot is 0 or absent a CPU usage of 0.0%; the call raises no
\* ZeroDivisionError, and returns a record whenever CPULoad is absent or a number.
C8_NoDivisionByZero ==
    (ParseEnded /\ parse_data.block.NodeName # <<>>) =>
        /\ exc # Raise("ZeroDivisionError")
        /\ (\/ parse_data.block.CPULoad = <<>>
            \/ parse_data.block.CPULoad[1] \in NumericLoads)
           => (pc = "returned" /\ parse_node # None)
        /\ (pc = "returned" /\ ZeroOrAbsent(parse_data.block.RealMemory))
           => parse_node.Memory
              = Str(TokenInt(parse_data.block.AllocMem) \div 1024)
                \o <<" ", "G", "B", " ", "U", "s", "e", "d", " ", "/", " ", "0", " ", "G", "B", " ", "(", "0", ".", "0", "%", ")">>
        /\ (pc = "returned" /\ ZeroOrAbsent(parse_data.block.CPUTot))
           => parse_node.CPUs
              = Str(TokenInt(parse_data.block.CPUAlloc)) \o <<" ", "A", "l", "l", "o", "c", " ", "(", "0", ".", "0", "%", ")", " ", "/", " ", "0", " ", "T", "o", "t", "a", "l">>

\* a block with RealMemory=0, AllocMem=1024, CPUAlloc=32 and no CPUTot was parsed
C8_Witness ==
    /\ pc = "returned"
    /\ parse_data.block.NodeName # <<>>
    /\ parse_data.block.RealMemory = <<<<"0">>>>
    /\ parse_data.block.AllocMem = <<<<"1", "0", "2", "4">>>>
    /\ parse_data.block.CPUTot = <<>>
    /\ parse_data.block.CPUAlloc = <<<<"3", "2">>>>
    /\ parse_node.Memory = <<"1", " ", "G", "B", " ", "U", "s", "e", "d", " ", "/", " ", "0", " ", "G", "B", " ", "(", "0", ".", "0", "%", ")">>
    /\ parse_node.CPUs = <<"3", "2", " ", "A", "l", "l", "o", "c", " ", "(", "0", ".", "0", "%", ")", " ", "/", " ", "0", " ", "T", "o", "t", "a", "l">>

-----------------------------------------------------------------------------
(* get_node_info *)

\* raise RuntimeError(msg)
RaiseMsg(type, msg) == [exc |-> type, msg |-> msg]

\* the RuntimeError get_node_info raises for a failed scontrol.  check_output is
\* called without capturing stderr, so e.stderr is None
ScontrolError(status) ==
    IF status = "FileNotFoundError"
    THEN RaiseMsg("RuntimeError",
                  <<"C", "o", "m", "m", "a", "n", "d", " ", "'", "s", "c", "o", "n", "t", "r", "o", "l", "'", " ", "n", "o", "t", " ", "f", "o", "u", "n", "d", ".", " ", "P", "l", "e", "a", "s", "e", " ", "e", "n", "s", "u", "r", "e", " ", "S", "L", "U", "R", "M", " ", "i", "s", " ", "i", "n", "s", "t", "a", "l", "l", "e", "d", " ", "a", "n", "d", " ", "a", "d", "d", "e", "d", " ", "t", "o", " ", "P", "A", "T", "H", ".">>)
    ELSE RaiseMsg("RuntimeError", <<"E", "r", "r", "o", "r", " ", "w", "h", "i", "l", "e", " ", "e", "x", "e", "c", "u", "t", "i", "n", "g", " ", "s", "c", "o", "n", "t", "r", "o", "l", ":", " ", "N", "o", "n", "e">>)

\* the state test without .lower()
IsDown_CaseSensitive(state) ==
    Contains(state, <<"d", "r", "a", "i", "n">>) \/ Contains(state, <<"d", "o", "w", "n">>)

\* 'drain' in node["State"].lower() or 'down' in node["State"].lower()
IsDown(state) ==
    Contains(Lower(state), <<"d", "r", "a", "i", "n">>) \/ Contains(Lower(state), <<"d", "o", "w", "n">>)

\* the loop body once parse_node_data has returned node (a dict is truthy)
AppendNode(ns, node, include_down) ==
    IF node = None THEN ns
    ELSE IF ~include_down /\ IsDown(node.State) THEN ns
    ELSE Append(ns, node)

\* result.split("\n\n") of the stripped output
NodesData(out) == Split(Strip(out), <<"\n", "\n">>)

-----------------------------------------------------------------------------
(* display_nodes *)

\* colored(text, color, attrs=["bold"]) of termcolor
Colored(text, color) == [text |-> text, color |-> color, attrs |-> "bold"]

ColorOf(state_lower) ==
    IF Contains(state_lower, <<"i", "d", "l", "e">>) THEN "green"
    ELSE IF Contains(state_lower, <<"m", "i", "x">>) THEN "yellow"
    ELSE IF Contains(state_lower, <<"d", "r", "a", "i", "n">>) \/ Contains(state_lower, <<"d", "o", "w", "n">>) THEN "red"
    ELSE "cyan"

color_state(state) == Colored(state, ColorOf(Lower(state)))

\* the slot columns without the nodes' totals: the minimum alone
MaxSlots_MinimumOnly(ns, slots) == slots

\* max([n.get("GPUTot", 0) for n in nodes] + [slots])
RECURSIVE MaxSlots(_, _)
MaxSlots(ns, slots) ==
    IF ns = <<>> THEN slots ELSE Max(Head(ns).GPUTot, MaxSlots(Tail(ns), slots))

Titles(max_slots) ==
    <<<<"N", "o", "d", "e", "N", "a", "m", "e">>, <<"S", "t", "a", "t", "e">>, <<"P", "a", "r", "t", "i", "t", "i", "o", "n", "s">>, <<"C", "P", "U", "s">>, <<"M", "e", "m", "o", "r", "y">>, <<"G", "P", "U", "s">>>>
    \o [i \in 1..max_slots |-> <<" ", "#">> \o Str(i) \o <<" ">>]
    \o <<<<"%", "C", "P", "U">>>>

\* gpu_info
GpuInfo(node) ==
    IF node.GPUTot > 0
    THEN Str(node.GPUAlloc) \o <<"/">> \o Str(node.GPUTot)
         \o (IF node.GPUDetails # <<>> THEN <<" ", "(">> \o node.GPUDetails \o <<")">> ELSE <<>>)
    ELSE <<"N", "/", "A">>

\* gpu_type[:4] if len(gpu_type) >= 4 else gpu_type
Abbrev(gpu_type) == IF Len(gpu_type) >= 4 THEN SubSeq(gpu_type, 1, 4) ELSE gpu_type

\* slot_assignments: count copies of each type's abbreviation, in dict order
RECURSIVE SlotAssignments(_, _)
SlotAssignments(gpu_alloc_by_type, i) ==
    IF i > Len(gpu_alloc_by_type) THEN <<>>
    ELSE [j \in 1..gpu_alloc_by_type[i].v |-> Abbrev(gpu_alloc_by_type[i].k)]
         \o SlotAssignments(gpu_alloc_by_type, i + 1)

\* the fill of a node that has per-type data: slot i (0-based) shows
\* slot_assignments[i] while i < len(slot_assignments), whatever gpu_total is
TypedSlots(slot_assignments, gpu_total, max_slots) ==
    [i \in 1..max_slots |->
        IF i <= Len(slot_assignments) THEN slot_assignments[i] ELSE <<>>]

\* the fill of a node without per-type data: used = min(gpu_alloc, gpu_total)
UntypedSlots(gpu_alloc, gpu_total, max_slots) ==
    [i \in 1..max_slots |-> IF i <= Min(gpu_alloc, gpu_total) THEN <<"#">> ELSE <<>>]

GpuSlots(node, max_slots) ==
    IF node.GPUAllocByType # <<>>
    THEN TypedSlots(SlotAssignments(node.GPUAllocByType, 1), node.GPUTot, max_slots)
    ELSE UntypedSlots(node.GPUAlloc, node.GPUTot, max_slots)

\* one table row
NodeRow(node, max_slots) ==
    <<node.NodeName, color_state(node.State), node.Partitions, node.CPUs, node.Memory,
      GpuInfo(node)>>
    \o GpuSlots(node, max_slots)
    \o <<Format(node.CPULoad, 2)>>

\* AsciiTable([titles] + rows); the drawing of the cells is terminaltables'
TableOf(ns, max_slots) ==
    [titles |-> Titles(max_slots),
     rows |-> [i \in DOMAIN ns |-> NodeRow(ns[i], max_slots)]]

PrintLine(text) == [line |-> text]

PrintTable(t) == [table |-> t]

-----------------------------------------------------------------------------
(* show_job_detail.  Its lines are kept as text; the colours termcolor gives *)
(* some of them are not part of the model.                                   *)

\* (node_name, gpu_count) for every claim of jobs whose job id is job_id
RECURSIVE ClaimsOfJob(_, _, _)
ClaimsOfJob(node_name, jobs, job_id) ==
    IF jobs = <<>> THEN <<>>
    ELSE (IF Head(jobs)[1] = job_id THEN <<<<node_name, Head(jobs)[3]>>>> ELSE <<>>)
         \o ClaimsOfJob(node_name, Tail(jobs), job_id)

\* nodes_with_job
RECURSIVE NodesWithJob(_, _)
NodesWithJob(mapping, job_id) ==
    IF mapping = <<>> THEN <<>>
    ELSE ClaimsOfJob(Head(mapping).k, Head(mapping).v, job_id)
         \o NodesWithJob(Tail(mapping), job_id)

\* the lines printed from parts = result.split('|')
DetailOfParts(parts) ==
    IF Len(parts) >= 7
    THEN <<PrintLine(<<" ", " ", "J", "o", "b", " ", "N", "a", "m", "e", ":", " ", " ", " ">> \o Strip(parts[2])),
           PrintLine(<<" ", " ", "U", "s", "e", "r", ":", " ", " ", " ", " ", " ", " ", " ">> \o Strip(parts[3])),
           PrintLine(<<" ", " ", "S", "t", "a", "t", "e", ":", " ", " ", " ", " ", " ", " ">> \o Strip(parts[4])),
           PrintLine(<<" ", " ", "R", "u", "n", "t", "i", "m", "e", ":", " ", " ", " ", " ">> \o Strip(parts[5])),
           PrintLine(<<" ", " ", "T", "i", "m", "e", " ", "L", "i", "m", "i", "t", ":", " ">> \o Strip(parts[6])),
           PrintLine(<<" ", " ", "G", "R", "E", "S", ":", " ", " ", " ", " ", " ", " ", " ">> \o Strip(parts[7])),
           PrintLine(<<>>)>>
    ELSE <<>>

DetailOfResult(result) ==
    IF result = <<>> THEN <<>> ELSE DetailOfParts(Split(result, <<"|">>))

\* the job details, when `squeue -j <id> -h -o %i|%j|%u|%T|%M|%l|%b` behaves as jq
JobDetail(jq) ==
    IF jq.status \in {"CalledProcessError", "FileNotFoundError"} THEN <<>>
    ELSE DetailOfResult(Strip(jq.out))

\* sum(gpu_count for _, gpu_count in nodes_with_job)
RECURSIVE TotalGpus(_)
TotalGpus(nodes_with_job) ==
    IF nodes_with_job = <<>> THEN 0
    ELSE Head(nodes_with_job)[2] + TotalGpus(Tail(nodes_with_job))

JobTable(nodes_with_job) ==
    [titles |-> <<<<"N", "o", "d", "e">>, <<"G", "P", "U", "s", " ", "A", "l", "l", "o", "c", "a", "t", "e", "d">>>>,
     rows |-> [i \in DOMAIN nodes_with_job |->
                  <<nodes_with_job[i][1], Str(nodes_with_job[i][2])>>]]

\* everything show_job_detail prints for a job that holds GPUs
JobReport(job_id, nodes_with_job, jq) ==
    <<PrintLine(<<"J", "o", "b", " ", "I", "D", ":", " ">> \o job_id),
      PrintLine([i \in 1..60 |-> "="]),
      PrintLine(<<>>)>>
    \o JobDetail(jq)
    \o <<PrintLine(<<"G", "P", "U", " ", "A", "l", "l", "o", "c", "a", "t", "i", "o", "n", ":">>),
         PrintLine(<<>>),
         PrintLine(<<" ", " ", "T", "o", "t", "a", "l", " ", "G", "P", "U", "s", ":", " ">> \o Str(TotalGpus(nodes_with_job))),
         PrintLine(<<>>),
         PrintTable(JobTable(nodes_with_job))>>

JobNotFound(job_id) ==
    <<PrintLine(<<"J", "o", "b", " ">> \o job_id \o <<" ", "n", "o", "t", " ", "f", "o", "u", "n", "d", " ", "o", "r", " ", "n", "o", "t", " ", "u", "s", "i", "n", "g", " ", "G", "P", "U", "s", ".">>)>>

-----------------------------------------------------------------------------
(* The winfo command: main *)

MaxBlocks == 2   \* scontrol prints 1..MaxBlocks blocks

MaxShown == 2    \* display_nodes, called on its own, is given 0..MaxShown nodes

\* a block without any token: what an empty output splits into
EmptyBlock ==
    [NodeName |-> <<>>, CPUAlloc |-> <<>>, CPUTot |-> <<>>, CPULoad |-> <<>>,
     RealMemory |-> <<>>, AllocMem |-> <<>>, CfgTRES |-> <<>>, AllocTRES |-> <<>>,
     Gres |-> <<>>, GresUsed |-> <<>>, State |-> <<>>, Partitions |-> <<>>,
     layout |-> "lines"]

NamedBlock(name, state, load) ==
    [SampleBlock EXCEPT !.NodeName = <<name>>, !.State = state, !.CPULoad = <<load>>]

\* the blocks the outputs of scontrol are made of
ProgramBlocks ==
    {SampleBlock,
     NamedBlock(<<"h", "g", "p", "n", "0", "3">>, <<<<"M", "I", "X", "E", "D", "+", "D", "R", "A", "I", "N">>>>, <<"0", ".", "5">>),
     NamedBlock(<<"h", "g", "p", "n", "0", "4">>, <<<<"I", "D", "L", "E">>>>, <<"N", "/", "A">>),
     [NamedBlock(<<"h", "g", "p", "n", "0", "5">>, <<>>, <<"7">>) EXCEPT !.layout = "oneline"],
     NamedBlock(<<"h", "g", "p", "n", "0", "6">>, <<<<"D", "O", "W", "N", "*">>>>, <<"2", "0", ".", "0", "0">>),
     NamedBlock(<<"h", "g", "p", "n", "0", "7">>, <<<<"D", "r", "a", "i", "n", "e", "d">>>>, <<"2", "0", ".", "0", "0">>),
     [SampleBlock EXCEPT !.NodeName = <<>>, !.State = <<<<"I", "D", "L", "E">>>>],
     [SampleBlock EXCEPT !.NodeName = <<>>, !.State = <<<<"D", "O", "W", "N", "*">>>>,
                         !.CPULoad = <<<<"N", "/", "A">>>>, !.RealMemory = <<<<"0">>>>,
                         !.CPUTot = <<<<"0">>>>, !.layout = "oneline"]}

ScontrolOk(blocks) ==
    [status |-> "ok", blocks |-> blocks,
     out |-> Join([i \in DOMAIN blocks |-> RenderBlock(blocks[i])], <<"\n", "\n">>)
             \o <<"\n">>]

ScontrolFailures ==
    {[status |-> st, blocks |-> <<>>, out |-> <<>>] :
        st \in {"CalledProcessError", "FileNotFoundError"}}

ScontrolOutcomes ==
    {ScontrolOk(blocks) : blocks \in SeqsUpTo(ProgramBlocks, MaxBlocks) \ {<<>>}}
    \cup {ScontrolOk(<<EmptyBlock>>)}
    \cup ScontrolFailures

\* what squeue does when display_nodes or show_job_detail asks for the mapping
SqueueNarrow ==
    {SqueueOk(<<r>>) :
        r \in {Row([kind |-> "plain", names |-> <<<<"n", "1">>, <<"n", "2">>>>],
                   [kind |-> "gpu:T:N", type |-> <<"v">>, count |-> 3]),
               Row([kind |-> "raw", text |-> <<"n", "[", "a", "-", "b", "]">>],
                   [kind |-> "gpu:N", type |-> <<>>, count |-> 2])}}
    \cup {[status |-> "ok", rows |-> <<>>, out |-> <<>>]}
    \cup SqueueFailures

\* what `squeue -j <id>` does when show_job_detail asks for the job's details
JobQueries ==
    {[status |-> "ok", out |-> o] :
        o \in {<<>>, <<"1", "0", "1", "|", "t", "r", "a", "i", "n", "\n">>, <<"1", "0", "1", "|", "t", "r", "a", "i", "n", "|", "a", "l", "i", "c", "e", "|", "R", "U", "N", "N", "I", "N", "G", "|", "1", ":", "0", "0", "|", "2", ":", "0", "0", "|", "g", "p", "u", ":", "v", ":", "3", "\n">>}}
    \cup {[status |-> st, out |-> <<>>] : st \in {"CalledProcessError", "FileNotFoundError"}}

Args(include_down, slots, job, show_job_ids) ==
    [include_down |-> include_down, slots |-> slots, job |-> job,
     show_job_ids |-> show_job_ids]

\* the command lines of winfo; display_nodes is called with show_job_ids' default
ProgramArgs ==
    {Args(d, DefaultSlots, <<>>, TRUE) : d \in BOOLEAN}
    \cup {Args(FALSE, 16, <<>>, TRUE)}
    \cup {Args(FALSE, DefaultSlots, j, TRUE) : j \in {<<"1", "0", "1">>, <<"9", "9", "9">>}}

Init ==
    /\ pc = "main"
    /\ args \in ProgramArgs
    /\ scontrol = NoScontrol
    /\ squeue = NoSqueue
    /\ parse_data = [block |-> None, text |-> <<>>]
    /\ parse_node = None
    /\ nodes_data = <<>>
    /\ nodes = <<>>
    /\ job_mapping = <<>>
    /\ table = NoTable
    /\ exc = None
    /\ stdout = <<>>
    /\ stderr = <<>>
    /\ exit_code = NoExit
    /\ WrunIdle

\* args = parser.parse_args(); if args.job: ... else: ...
Main ==
    /\ pc = "main"
    /\ pc' = IF args.job # <<>> THEN "show_job_detail" ELSE "get_node_info"
    /\ UNCHANGED <<args, scontrol, squeue, parse_data, parse_node, nodes_data, nodes,
                   job_mapping, table, exc, stdout, stderr, exit_code>>
    /\ UNCHANGED wrun_vars

\* get_node_info up to the loop: scontrol runs and its output is split
GetNodeInfo ==
    /\ pc = "get_node_info"
    /\ \E sc \in ScontrolOutcomes :
        /\ scontrol' = sc
        /\ IF sc.status # "ok"
           THEN /\ exc' = ScontrolError(sc.status)
                /\ pc' = "raised"
                /\ UNCHANGED <<nodes_data, nodes>>
           ELSE /\ nodes_data' = NodesData(sc.out)
                /\ nodes' = <<>>
                /\ pc' = "get_node_info_loop"
                /\ UNCHANGED exc
    /\ UNCHANGED <<args, squeue, parse_data, parse_node, job_mapping, table, stdout,
                   stderr, exit_code>>
    /\ UNCHANGED wrun_vars

\* the block of scontrol's output whose text is parsed next
NextBlock == scontrol.blocks[Len(scontrol.blocks) - Len(nodes_data) + 1]

\* one iteration of get_node_info's loop after parse_node_data gave r; the
\* function returns after the last one
LoopResult(r) ==
    IF IsExc(r)
    THEN /\ exc' = r
         /\ pc' = "raised"
         /\ UNCHANGED <<parse_node, nodes, nodes_data>>
    ELSE /\ parse_node' = r
         /\ nodes' = AppendNode(nodes, r, args.include_down)
         /\ nodes_data' = Tail(nodes_data)
         /\ pc' = IF Len(nodes_data) = 1 THEN "display_nodes" ELSE "get_node_info_loop"
         /\ UNCHANGED exc

ParseNextBlock ==
    /\ pc = "get_node_info_loop"
    /\ parse_data' = [block |-> NextBlock, text |-> Head(nodes_data)]
    /\ LoopResult(ParseNodeData(Head(nodes_data)))
    /\ UNCHANGED <<args, scontrol, squeue, job_mapping, table, stdout, stderr, exit_code>>
    /\ UNCHANGED wrun_vars

\* display_nodes once the mapping call gave r
Displayed(r) ==
    IF IsExc(r)
    THEN /\ exc' = r
         /\ pc' = "raised"
         /\ UNCHANGED <<job_mapping, table, stdout>>
    ELSE /\ job_mapping' = r.val
         /\ table' = TableOf(nodes, MaxSlots(nodes, args.slots))
         /\ stdout' = Append(stdout, PrintTable(table'))
         /\ pc' = "displayed"
         /\ UNCHANGED exc

\* display_nodes(nodes, slots=args.slots, show_job_ids=args.show_job_ids)
DisplayNodes ==
    /\ pc = "display_nodes"
    /\ IF nodes = <<>>
       THEN /\ stdout' = Append(stdout, PrintLine(<<"N", "o", " ", "n", "o", "d", "e", " ", "i", "n", "f", "o", "r", "m", "a", "t", "i", "o", "n", " ", "t", "o", " ", "d", "i", "s", "p", "l", "a", "y", ".">>))
            /\ pc' = "displayed"
            /\ UNCHANGED <<squeue, job_mapping, table, exc>>
       ELSE IF args.show_job_ids
       THEN \E sq \in SqueueNarrow :
                /\ squeue' = sq
                /\ Displayed(GetJobGpuMapping(sq))
       ELSE /\ Displayed([val |-> <<>>])
            /\ UNCHANGED squeue
    /\ UNCHANGED <<args, scontrol, parse_data, parse_node, nodes_data, nodes, stderr,
                   exit_code>>
    /\ UNCHANGED wrun_vars

\* show_job_detail once the mapping call gave r and the details query behaves as jq
JobShown(r, jq) ==
    IF IsExc(r)
    THEN /\ exc' = r
         /\ pc' = "raised"
         /\ UNCHANGED <<job_mapping, stdout>>
    ELSE /\ job_mapping' = r.val
         /\ stdout' = stdout \o (IF NodesWithJob(r.val, args.job) = <<>>
                                 THEN JobNotFound(args.job)
                                 ELSE JobReport(args.job, NodesWithJob(r.val, args.job), jq))
         /\ pc' = "displayed"
         /\ UNCHANGED exc

\* show_job_detail(args.job)
ShowJobDetail ==
    /\ pc = "show_job_detail"
    /\ \E sq \in SqueueNarrow, jq \in JobQueries :
        /\ squeue' = sq
        /\ JobShown(GetJobGpuMapping(sq), jq)
    /\ UNCHANGED <<args, scontrol, parse_data, parse_node, nodes_data, nodes, table,
                   stderr, exit_code>>
    /\ UNCHANGED wrun_vars

\* main returns; the console script ends with sys.exit(main()), main() being None
MainReturn ==
    /\ pc = "displayed"
    /\ pc' = "exit"
    /\ exit_code' = 0
    /\ UNCHANGED <<args, scontrol, squeue, parse_data, parse_node, nodes_data, nodes,
                   job_mapping, table, exc, stdout, stderr>>
    /\ UNCHANGED wrun_vars

\* except RuntimeError as e: print(f"Error: {e}"); then main returns
MainExcept ==
    /\ pc = "raised"
    /\ exc.exc = "RuntimeError"
    /\ stdout' = Append(stdout, PrintLine(<<"E", "r", "r", "o", "r", ":", " ">> \o exc.msg))
    /\ pc' = "exit"
    /\ exit_code' = 0
    /\ UNCHANGED <<args, scontrol, squeue, parse_data, parse_node, nodes_data, nodes,
                   job_mapping, table, exc, stderr>>
    /\ UNCHANGED wrun_vars

\* any other exception leaves main: the interpreter prints the traceback and
\* exits with status 1
MainUncaught ==
    /\ pc = "raised"
    /\ exc.exc # "RuntimeError"
    /\ stderr' = Append(stderr, [traceback |-> exc.exc])
    /\ pc' = "exit"
    /\ exit_code' = 1
    /\ UNCHANGED <<args, scontrol, squeue, parse_data, parse_node, nodes_data, nodes,
                   job_mapping, table, exc, stdout>>
    /\ UNCHANGED wrun_vars

Next ==
    \/ Main
    \/ GetNodeInfo
    \/ ParseNextBlock
    \/ DisplayNodes
    \/ ShowJobDetail
    \/ MainReturn
    \/ MainExcept
    \/ MainUncaught

Spec == Init /\ [][Next]_vars

-----------------------------------------------------------------------------
(* display_nodes called on its own *)

\* what parse_node_data returns for the block of tests/test_node_info.py
SampleNode ==
    [NodeName |-> <<"h", "g", "p", "n", "0", "2">>, State |-> <<"M", "I", "X", "E", "D">>, Partitions |-> <<"g", "p", "u", "x">>,
     CPUs |-> <<"3", "2", " ", "A", "l", "l", "o", "c", " ", "(", "5", "0", ".", "0", "%", ")", " ", "/", " ", "6", "4", " ", "T", "o", "t", "a", "l">>,
     Memory |-> <<"1", " ", "G", "B", " ", "U", "s", "e", "d", " ", "/", " ", "1", "8", "7", " ", "G", "B", " ", "(", "0", ".", "5", "%", ")">>,
     CPUAlloc |-> 32, CPUTot |-> 64, CPULoad |-> Float(2000, 100),
     GPUAlloc |-> 4, GPUTot |-> 8, GPUDetails |-> <<>>, GPUAllocByType |-> <<>>]

\* the per-type allocations AllocTRES can carry beside an aggregate of alloc
ByTypes(alloc) ==
    {<<>>}
    \cup (IF alloc >= 1 THEN {<<[k |-> <<"a", "1", "0", "0">>, v |-> alloc]>>} ELSE {})
    \cup (IF alloc >= 2
          THEN {<<[k |-> <<"r", "t", "x", "3", "0", "9", "0">>, v |-> 1], [k |-> <<"a", "1", "0", "0">>, v |-> alloc - 1]>>}
          ELSE {})

\* <<GPUAlloc, GPUTot>> of the nodes shown; <<10, 8>> is inconsistent source data
GpuCounts == {<<0, 0>>, <<0, 8>>, <<4, 8>>, <<10, 8>>, <<2, 16>>}

ShownNodes ==
    UNION {{[SampleNode EXCEPT !.GPUAlloc = c[1], !.GPUTot = c[2], !.GPUAllocByType = t] :
               t \in ByTypes(c[1])} : c \in GpuCounts}

DisplayArgs == {Args(FALSE, s, <<>>, j) : s \in {DefaultSlots, 16}, j \in BOOLEAN}

InitDisplay ==
    /\ pc = "display_nodes"
    /\ args \in DisplayArgs
    /\ nodes \in SeqsUpTo(ShownNodes, MaxShown)
    /\ scontrol = NoScontrol
    /\ squeue = NoSqueue
    /\ parse_data = [block |-> None, text |-> <<>>]
    /\ parse_node = None
    /\ nodes_data = <<>>
    /\ job_mapping = <<>>
    /\ table = NoTable
    /\ exc = None
    /\ stdout = <<>>
    /\ stderr = <<>>
    /\ exit_code = NoExit
    /\ WrunIdle

NextDisplay == DisplayNodes

SpecDisplay == InitDisplay /\ [][NextDisplay]_vars

-----------------------------------------------------------------------------
(* Properties of get_node_info and main *)

\* the blocks of scontrol's output that carry a NodeName
NamedBlocks == {j \in DOMAIN scontrol.blocks : scontrol.blocks[j].NodeName # <<>>}

\* C4: a block without a NodeName= token makes parse_node_data return None
\* without raising, whatever else the block holds, and get_node_info leaves it
\* out: the list it returns has no more entries than there are named blocks and
\* every entry carries the name of a named block.
C4_NamelessIsNoNode ==
    /\ (/\ parse_data.block # None
        /\ parse_data.block.NodeName = <<>>
        /\ squeue = NoSqueue)
       => (exc = None /\ parse_node = None)
    /\ pc = "display_nodes"
       => /\ Len(nodes) <= Cardinality(NamedBlocks)
          /\ \A i \in DOMAIN nodes :
                \E j \in NamedBlocks : scontrol.blocks[j].NodeName = <<nodes[i].NodeName>>

\* get_node_info has returned for a nameless block followed by the sample block
C4_Witness ==
    /\ pc = "display_nodes"
    /\ Len(scontrol.blocks) = 2
    /\ scontrol.blocks[1].NodeName = <<>>
    /\ scontrol.blocks[1].State = <<<<"I", "D", "L", "E">>>>
    /\ scontrol.blocks[2] = SampleBlock
    /\ Len(nodes) = 1
    /\ nodes[1].NodeName = <<"h", "g", "p", "n", "0", "2">>

\* the State tokens of the blocks that contain drain or down in some case
DownTokens == {<<<<"M", "I", "X", "E", "D", "+", "D", "R", "A", "I", "N">>>>, <<<<"D", "O", "W", "N", "*">>>>, <<<<"D", "r", "a", "i", "n", "e", "d">>>>}

\* the names get_node_info is to return, in input order
RECURSIVE ExpectedListing(_, _)
ExpectedListing(blocks, include_down) ==
    IF blocks = <<>> THEN <<>>
    ELSE (IF /\ Head(blocks).NodeName # <<>>
             /\ (include_down \/ Head(blocks).State \notin DownTokens)
          THEN Head(blocks).NodeName
          ELSE <<>>)
         \o ExpectedListing(Tail(blocks), include_down)

\* C6: without --include-down get_node_info returns no node whose State
\* contains drain or down in any case (MIXED+DRAIN included) and returns every
\* other parsed node in input order; with it, every block that has a NodeName.
C6_StateFilter ==
    pc = "display_nodes" =>
        /\ [i \in DOMAIN nodes |-> nodes[i].NodeName]
           = ExpectedListing(scontrol.blocks, args.include_down)
        /\ ~args.include_down
           => \A i \in DOMAIN nodes :
                nodes[i].State \notin {<<"M", "I", "X", "E", "D", "+", "D", "R", "A", "I", "N">>, <<"D", "O", "W", "N", "*">>, <<"D", "r", "a", "i", "n", "e", "d">>}

\* the default listing of a MIXED+DRAIN node followed by the sample node
C6_Witness ==
    /\ pc = "display_nodes"
    /\ ~args.include_down
    /\ Len(scontrol.blocks) = 2
    /\ scontrol.blocks[1].State = <<<<"M", "I", "X", "E", "D", "+", "D", "R", "A", "I", "N">>>>
    /\ scontrol.blocks[1].NodeName # <<>>
    /\ scontrol.blocks[2] = SampleBlock
    /\ Len(nodes) = 1
    /\ nodes[1].State = <<"M", "I", "X", "E", "D">>

\* C10: when scontrol is not on the search path or exits non-zero, winfo
\* builds no table, prints the failure as a message without a stack trace, and
\* exits with a non-success status.
C10_ScontrolFailureExit ==
    (/\ pc = "exit"
     /\ scontrol.status \in {"CalledProcessError", "FileNotFoundError"})
    => /\ table = NoTable
       /\ stdout = <<PrintLine(<<"E", "r", "r", "o", "r", ":", " ">> \o exc.msg)>>
       /\ stderr = <<>>
       /\ exit_code # 0

-----------------------------------------------------------------------------
(* Properties of display_nodes *)

\* the slot cells of a row that show something
UsedSlots(row) == {i \in 7..(Len(row) - 1) : row[i] # <<>>}

\* C7: every node rendered by display_nodes, with or without per-type
\* allocation data and whatever the other nodes of the table are, shows
\* exactly min(gpu_allocated, gpu_total) used slots.
C7_UsedSlotsClamped ==
    (pc = "displayed" /\ nodes # <<>>) =>
        \A i \in DOMAIN nodes :
            Cardinality(UsedSlots(table.rows[i]))
            = IF nodes[i].GPUAlloc <= nodes[i].GPUTot
              THEN nodes[i].GPUAlloc ELSE nodes[i].GPUTot

\* C9: when squeue is missing or exits non-zero, get_job_gpu_mapping returns
\* an empty mapping instead of raising, and display_nodes still renders one row
\* for every node it was given.
C9_SqueueFailureTolerated ==
    squeue.status \in {"CalledProcessError", "FileNotFoundError"} =>
        /\ pc = "displayed"
        /\ exc = None
        /\ job_mapping = <<>>
        /\ Len(table.rows) = Len(nodes)
        /\ \A i \in DOMAIN nodes : table.rows[i][1] = nodes[i].NodeName
        /\ stdout = <<PrintTable(table)>>

\* two nodes were displayed although squeue is not installed
C9_Witness ==
    /\ pc = "displayed"
    /\ squeue.status = "FileNotFoundError"
    /\ Len(nodes) = 2
    /\ Len(table.rows) = 2
    /\ job_mapping = <<>>

-----------------------------------------------------------------------------
(* Further properties of get_job_gpu_mapping *)

\* the claims recorded on the node of the k-th key
ClaimsAt(k) == job_mapping[k].v

\* C14: every claim recorded in the returned mapping has gpu_count >= 1: a
\* per-node share of zero (a job with fewer GPUs than nodes) is dropped, not
\* recorded
C14_ClaimsPositive ==
    pc = "returned" =>
        \A k \in DOMAIN job_mapping :
            \A j \in DOMAIN ClaimsAt(k) : ClaimsAt(k)[j][3] >= 1

\* the nodes a row's job runs on: the names its fields stand for, and for a list
\* of no documented form the names the code makes of it
NodeListOf(i) ==
    IF squeue.rows[i].nodelist.kind = "bracket"
    THEN ExpectedNames(squeue.rows[i].nodelist.prefix, squeue.rows[i].nodelist.parts)
    ELSE IF squeue.rows[i].nodelist.kind = "plain" THEN squeue.rows[i].nodelist.names
    ELSE Expanded(i).val

\* the row whose job id is job_id
RowOf(job_id) == CHOOSE i \in DOMAIN squeue.rows : JobIdAt(i) = job_id

\* the job ids of a claim list follow the order of their rows in the queue
InQueueOrder(claims) ==
    \A a, b \in DOMAIN claims : a < b => RowOf(claims[a][1]) <= RowOf(claims[b][1])

\* C15: a row with a non-zero GPU count has one claim for its job on each node of
\* its expanded node list (one per position of the list) and none on any other
\* node; the claims of different jobs on one node are all in that node's list, in
\* queue order
C15_OneClaimPerNode ==
    pc = "returned" =>
        /\ \A i \in FullRows :
               ResolvedCount(i) # 0 =>
                   \A x \in DictKeys(job_mapping) \cup Range(NodeListOf(i)) :
                       Len(JobCounts(job_mapping, x, JobIdAt(i)))
                           = Cardinality(Occurrences(NodeListOf(i), x))
        /\ \A k \in DOMAIN job_mapping : InQueueOrder(ClaimsAt(k))

\* two jobs with GPUs ran on n1: its list holds the claim of 101, then that of 102
C15_Witness ==
    /\ pc = "returned"
    /\ Len(squeue.rows) = 2
    /\ 1 \in FullRows /\ 2 \in FullRows
    /\ ResolvedCount(1) # 0 /\ ResolvedCount(2) # 0
    /\ <<"n", "1">> \in Range(NodeListOf(1)) \cap Range(NodeListOf(2))
    /\ [j \in 1..2 |-> DictGet(job_mapping, <<"n", "1">>, <<>>)[j][1]]
           = <<JobIdAt(1), JobIdAt(2)>>
    /\ Len(DictGet(job_mapping, <<"n", "1">>, <<>>)) = 2

\* the node names of the returned mapping that hold a claim of the job of row i
NodesOfJob(i) == {x \in DictKeys(job_mapping) : JobCounts(job_mapping, x, JobIdAt(i)) # <<>>}

\* C16: a node list without brackets is split on commas into its literal names,
\* and a list of any other form than <alphabetic prefix>[<spec>] is one literal
\* node name: a job with GPUs is recorded on exactly those names, never on none
C16_OtherFormsLiteral ==
    pc = "returned" =>
        \A i \in FullRows :
            ResolvedCount(i) # 0 =>
                /\ squeue.rows[i].nodelist.kind = "plain" =>
                       NodesOfJob(i) = Range(squeue.rows[i].nodelist.names)
                /\ squeue.rows[i].nodelist.kind = "raw" =>
                       NodesOfJob(i) = {squeue.rows[i].nodelist.text}

\* the total and the type label the row's generic-resource field stands for
GresTotal(g) ==
    IF g.kind = "typed" THEN SumSeq([j \in DOMAIN g.entries |-> g.entries[j].count])
    ELSE g.count

\* C17: a generic-resource field with one or more gpu:<type>:<count> entries
\* resolves to the sum of their counts; a field with no typed entry and one
\* untyped gpu:<count> or gpu=<count> resolves to that count, with the type
\* label 'gpu'
C17_TypedCountsSummed ==
    pc = "returned" =>
        \A i \in FullRows :
            /\ squeue.rows[i].gres.kind \in {"typed", "gpu:T:N"} =>
                   /\ ResolvedCount(i) = GresTotal(squeue.rows[i].gres)
                   /\ squeue.rows[i].nodelist.kind = "plain" =>
                          JobTotal(job_mapping, JobIdAt(i)) = GresTotal(squeue.rows[i].gres)
            /\ squeue.rows[i].gres.kind \in {"gpu:N", "gres/gpu=N"} =>
                   ResolveGpu(RenderGres(squeue.rows[i].gres))
                       = [gpu_type |-> <<"g", "p", "u">>,
                          gpu_count |-> squeue.rows[i].gres.count]

\* C18: each of the four documented formats gpu:<type>:<N>, gpu:<N>,
\* gres/gpu:<type>=<N> and gres/gpu=<N> resolves to the count N, whatever letters
\* and digits the type label is made of
C18_FourFormats ==
    pc = "returned" =>
        \A i \in FullRows :
            squeue.rows[i].gres.kind \in GresKinds =>
                /\ ResolvedCount(i) = squeue.rows[i].gres.count
                /\ squeue.rows[i].nodelist.kind = "plain" =>
                       JobTotal(job_mapping, JobIdAt(i)) = squeue.rows[i].gres.count

-----------------------------------------------------------------------------
(* Further properties of parse_node_data *)

\* a CfgTRES / AllocTRES token that reports GPUs, typed or untyped
ReportsGpus(t) == t # <<>> /\ (t[1].untyped # <<>> \/ t[1].typed # <<>>)

\* the untyped gres/gpu=<N> of the field, or without it the sum of its
\* gres/gpu:<type>=<count>
TresAggregate(t) ==
    IF t[1].untyped # <<>> THEN t[1].untyped[1]
    ELSE SumSeq([j \in DOMAIN t[1].typed |-> t[1].typed[j][2]])

\* C19: in the returned record GPUTot (resp. GPUAlloc) is the untyped
\* gres/gpu=<N> of CfgTRES (resp. AllocTRES) when that sub-token is present, and
\* otherwise the sum of the per-type counts gres/gpu:<type>=<count> of the field
C19_AggregateFromTres ==
    (pc = "returned" /\ parse_node # None) =>
        /\ ReportsGpus(parse_data.block.CfgTRES) =>
               parse_node.GPUTot = TresAggregate(parse_data.block.CfgTRES)
        /\ ReportsGpus(parse_data.block.AllocTRES) =>
               parse_node.GPUAlloc = TresAggregate(parse_data.block.AllocTRES)

\* the typed entries gpu:<type>:<count> of a Gres token of the blocks above
GresTypedEntries(g) ==
    IF g = <<<<"g", "p", "u", ":", "a", "1", "0", "0", ":", "4">>>> THEN << <<<<"a", "1", "0", "0">>, 4>> >> ELSE <<>>

\* the count of a Gres token in the bare form gpu:<count>
GresBareCount(g) == IF g = <<<<"g", "p", "u", ":", "3">>>> THEN 3 ELSE 0

\* typed entries as a dict from type to count
ByTypeDict(typed) == [j \in DOMAIN typed |-> [k |-> typed[j][1], v |-> typed[j][2]]]

\* the typed entries of the block's CfgTRES / AllocTRES
TypedOf(t) == IF t = <<>> THEN <<>> ELSE t[1].typed

\* the totals by type from the ordered fallbacks: CfgTRES's typed entries, else
\* the typed entries of Gres
ExpectedTotalByType(b) ==
    IF TypedOf(b.CfgTRES) # <<>> THEN ByTypeDict(TypedOf(b.CfgTRES))
    ELSE ByTypeDict(GresTypedEntries(b.Gres))

\* C20: the GPU totals by type are the typed gres/gpu:<type>=<count> entries of
\* CfgTRES when it has any; if it has none (even with an untyped gres/gpu=<N>)
\* they are the typed gpu:<type>:<count> entries of Gres; only if that too yields
\* nothing is the bare gpu:<count> of Gres used, for a single untyped total.  The
\* record shows the totals by type as what is available of each type.
C20_TotalsByTypeFallbacks ==
    (pc = "returned" /\ parse_node # None) =>
        /\ parse_node.GPUDetails
               = Join(AvailableDetails(ExpectedTotalByType(parse_data.block),
                                       ByTypeDict(TypedOf(parse_data.block.AllocTRES)), 1),
                      <<",", " ">>)
        /\ (/\ ExpectedTotalByType(parse_data.block) = <<>>
            /\ ~ReportsGpus(parse_data.block.CfgTRES)
            /\ GresBareCount(parse_data.block.Gres) # 0)
           => parse_node.GPUTot = GresBareCount(parse_data.block.Gres)

-----------------------------------------------------------------------------
(* wrun (wrapslurm/job_runner.py): query_partition_resources *)

\* f"{memory_mb / 1024:.1f}" : tenths of memory_mb / 1024, the exact quotient
\* rounded half to even
FormatTenths(memory_mb) ==
    IF \/ 2 * ((memory_mb * 10) % 1024) > 1024
       \/ (2 * ((memory_mb * 10) % 1024) = 1024 /\ ((memory_mb * 10) \div 1024) % 2 = 1)
    THEN FormatScaled(((memory_mb * 10) \div 1024) + 1, 1)
    ELSE FormatScaled((memory_mb * 10) \div 1024, 1)

FormatMemory(memory_mb) ==
    IF memory_mb <= 0 THEN <<"5", "0", "G">>
    ELSE IF memory_mb % 1024 = 0 THEN Str(memory_mb \div 1024) \o <<"G">>
    ELSE IF memory_mb > 1024 THEN FormatTenths(memory_mb) \o <<"G">>
    ELSE Str(memory_mb) \o <<"M">>

\* r"(\d+)"
RE_Digits == <<Group("\\d", 1)>>

\* the body of `for entry in gres_field.split(",")` on numbers = re.findall(...)
RECURSIVE ParseGpuEntries(_)
ParseGpuEntry(entry, numbers, rest) ==
    IF ~Contains(entry, <<"g", "p", "u">>) \/ numbers = <<>> THEN ParseGpuEntries(rest)
    ELSE Max(1, PyInt(numbers[Len(numbers)][1]))

ParseGpuEntries(entries) ==
    IF entries = <<>> THEN 1
    ELSE ParseGpuEntry(Head(entries), ReFindAll(RE_Digits, Head(entries)), Tail(entries))

parse_gpus(gres_field) ==
    IF gres_field = <<>> THEN 1 ELSE ParseGpuEntries(Split(gres_field, <<",">>))

\* [piece for piece in cpu_info.split("/") if piece]
NonEmpty(piece) == piece # <<>>

\* int(cpu_pieces[-1]) if cpu_pieces else 1, and 1 on ValueError.  (int also
\* accepts a sign, blanks and underscores; no modelled input has them.)
CpusTotal(cpu_pieces) ==
    IF cpu_pieces = <<>> THEN 1
    ELSE IF IntOk(cpu_pieces[Len(cpu_pieces)]) THEN PyInt(cpu_pieces[Len(cpu_pieces)])
    ELSE 1

\* int("".join(filter(str.isdigit, memory_raw))) if there is a digit, else 0
MemoryMb(memory_digits) == IF memory_digits = <<>> THEN 0 ELSE PyInt(memory_digits)

\* a PartitionInfo; max_time None is <<>>
PartitionInfo(name, cpus_per_node, memory_mb, gpus, max_time) ==
    [name |-> name, cpus_per_node |-> cpus_per_node, memory_mb |-> memory_mb,
     memory_display |-> FormatMemory(memory_mb), gpus |-> gpus, max_time |-> max_time]

\* Replaces with >= in place of > : the last line that attains the maximum wins
Replaces_OrEqual(partition_info, cpus_total) ==
    partition_info = None \/ cpus_total >= partition_info.cpus_per_node

\* partition_info is None or cpus_total > partition_info.cpus_per_node
Replaces(partition_info, cpus_total) ==
    partition_info = None \/ cpus_total > partition_info.cpus_per_node

\* the end of an iteration, from the parsed fields on
RecordPartition(partitions, partition_name, cpus_total, memory_mb, gpus, max_time) ==
    IF partition_name = <<>> THEN partitions
    ELSE IF Replaces(DictGet(partitions, partition_name, None), cpus_total)
    THEN DictSet(partitions, partition_name,
                 PartitionInfo(partition_name, cpus_total, memory_mb, gpus, max_time))
    ELSE partitions

\* one iteration of `for line in result.split("\n")`, from parts = line.split("|")
PartitionOfParts(partitions, parts) ==
    IF Len(parts) < 5 THEN partitions
    ELSE RecordPartition(partitions, Strip(Split(parts[1], <<"*">>)[1]),
                         CpusTotal(SelectSeq(Split(parts[2], <<"/">>), NonEmpty)),
                         MemoryMb(SelectSeq(parts[3], IsDigit)),
                         parse_gpus(parts[4]), Strip(parts[5]))

RECURSIVE PartitionsOfLines(_, _)
PartitionsOfLines(partitions, lines) ==
    IF lines = <<>> THEN partitions
    ELSE PartitionsOfLines(IF Strip(Head(lines)) = <<>> THEN partitions
                           ELSE PartitionOfParts(partitions, Split(Head(lines), <<"|">>)),
                           Tail(lines))

\* query_partition_resources() when sinfo behaves as si
query_partition_resources(si) ==
    IF si.status \in {"CalledProcessError", "FileNotFoundError"}
    THEN RaiseMsg("RuntimeError", <<"U", "n", "a", "b", "l", "e", " ", "t", "o", " ", "q", "u", "e", "r", "y", " ", "S", "L", "U", "R", "M", " ", "r", "e", "s", "o", "u", "r", "c", "e", "s", ".", " ", "E", "n", "s", "u", "r", "e", " ", "'", "s", "i", "n", "f", "o", "'", " ", "i", "s", " ", "i", "n", "s", "t", "a", "l", "l", "e", "d", ".">>)
    ELSE [val |-> PartitionsOfLines(<<>>, Split(Strip(si.out), <<"\n">>))]

-----------------------------------------------------------------------------
(* What sinfo can print.  A line is kept in two forms: what it reports (name,  *)
(* CPU count, memory, GPUs, time limit) and the text the program reads.        *)

MaxLines == 3    \* lines of a sinfo output

\* a line of five fields.  cpus is the number the CPU field reports: the field
\* itself, or the last of A/I/O/T; a field that is no number (sinfo's "32+")
\* reports no count and stands for 1
SinfoLine(name, star, cpu_text, cpus, mem_text, mem, gres, gpus, time_text, max_time) ==
    [kind |-> "line", name |-> name, star |-> star, cpu_text |-> cpu_text, cpus |-> cpus,
     mem_text |-> mem_text, mem |-> mem, gres |-> gres, gpus |-> gpus,
     time_text |-> time_text, max_time |-> max_time]

SinfoLines ==
    {SinfoLine(<<"g", "p", "u">>, TRUE, <<"6", "4">>, 64, <<"1", "9", "1", "9", "9", "7">>, 191997, <<"g", "p", "u", ":", "a", "1", "0", "0", ":", "4">>, 4,
               <<"4", "-", "0", "0", ":", "0", "0", ":", "0", "0">>, <<"4", "-", "0", "0", ":", "0", "0", ":", "0", "0">>),
     SinfoLine(<<"g", "p", "u">>, TRUE, <<"6", "4">>, 64, <<"2", "0", "4", "8">>, 2048, <<"g", "p", "u", ":", "2">>, 2,
               <<"i", "n", "f", "i", "n", "i", "t", "e">>, <<"i", "n", "f", "i", "n", "i", "t", "e">>),
     SinfoLine(<<"g", "p", "u">>, FALSE, <<"3", "2">>, 32, <<"1", "2", "8", "0">>, 1280, <<"(", "n", "u", "l", "l", ")">>, 1,
               <<"1", ":", "0", "0", ":", "0", "0">>, <<"1", ":", "0", "0", ":", "0", "0">>),
     SinfoLine(<<"g", "p", "u">>, FALSE, <<"0", "/", "2", "/", "0", "/", "1", "2", "8">>, 128, <<"5", "1", "2">>, 512, <<"l", "u", "s", "t", "r", "e", ":", "1", ",", "g", "p", "u", ":", "v", ":", "8">>, 8,
               <<" ">>, <<>>),
     SinfoLine(<<"c", "p", "u">>, FALSE, <<"3", "2", "+">>, 1, <<"4", "0", "9", "6", "+">>, 4096, <<>>, 1,
               <<"3", "0", ":", "0", "0">>, <<"3", "0", ":", "0", "0">>),
     SinfoLine(<<>>, TRUE, <<"8">>, 8, <<"1", "0">>, 10, <<"g", "p", "u", ":", "1">>, 1, <<"1", ":", "0", "0">>, <<"1", ":", "0", "0">>),
     [kind |-> "short", text |-> <<"c", "p", "u", "|", "4", "|", "1", "0", "0", "|", "g", "p", "u", ":", "1">>],
     [kind |-> "blank", text |-> <<" ">>]}

RenderSinfoLine(l) ==
    IF l.kind = "line"
    THEN Join(<<l.name \o (IF l.star THEN <<"*">> ELSE <<>>), l.cpu_text, l.mem_text, l.gres,
                l.time_text>>, <<"|">>)
    ELSE l.text

SinfoOk(lines) ==
    [status |-> "ok", lines |-> lines,
     out |-> Join([i \in DOMAIN lines |-> RenderSinfoLine(lines[i])], <<"\n">>) \o <<"\n">>]

SinfoFailures ==
    {[status |-> st, lines |-> <<>>, out |-> <<>>] :
        st \in {"CalledProcessError", "FileNotFoundError"}}

SinfoOutcomes == {SinfoOk(lines) : lines \in SeqsUpTo(SinfoLines, MaxLines)} \cup SinfoFailures

\* winfo does not run
WinfoIdle ==
    /\ scontrol = NoScontrol
    /\ squeue = NoSqueue
    /\ parse_data = [block |-> None, text |-> <<>>]
    /\ parse_node = None
    /\ nodes_data = <<>>
    /\ nodes = <<>>
    /\ job_mapping = <<>>
    /\ table = NoTable

-----------------------------------------------------------------------------
(* query_partition_resources called on its own *)

InitPartitions ==
    /\ pc = "query_partition_resources"
    /\ sinfo \in SinfoOutcomes
    /\ sacctmgr = NoSacctmgr
    /\ defaults_file = NoDefaultsFile
    /\ answers = NoAnswers
    /\ partition_infos = <<>>
    /\ resolved = None
    /\ commands = <<>>
    /\ files = <<>>
    /\ args = NoArgs
    /\ exc = None
    /\ stdout = <<>>
    /\ stderr = <<>>
    /\ exit_code = NoExit
    /\ WinfoIdle

\* the call returns r.val, or r leaves it as an exception
ReturnPartitions(r) ==
    IF IsExc(r)
    THEN /\ exc' = r
         /\ pc' = "raised"
         /\ UNCHANGED partition_infos
    ELSE /\ partition_infos' = r.val
         /\ pc' = "returned"
         /\ UNCHANGED exc

CallQueryPartitionResources ==
    /\ pc = "query_partition_resources"
    /\ ReturnPartitions(query_partition_resources(sinfo))
    /\ UNCHANGED <<args, stdout, stderr, exit_code, sinfo, sacctmgr, defaults_file, answers,
                   resolved, commands, files>>
    /\ UNCHANGED winfo_vars

NextPartitions == CallQueryPartitionResources

SpecPartitions == InitPartitions /\ [][NextPartitions]_vars

-----------------------------------------------------------------------------
(* Properties of query_partition_resources *)

\* the lines that are not skipped: five fields and a name
CountedLines == {i \in DOMAIN sinfo.lines : sinfo.lines[i].kind = "line" /\ sinfo.lines[i].name # <<>>}

\* the lines that report the partition called name
LinesOf(name) == {i \in CountedLines : sinfo.lines[i].name = name}

\* the first line of the partition that attains its maximum CPU count
FirstMaxLine(name) ==
    CHOOSE i \in LinesOf(name) :
        /\ \A j \in LinesOf(name) : sinfo.lines[j].cpus <= sinfo.lines[i].cpus
        /\ \A j \in LinesOf(name) : sinfo.lines[j].cpus = sinfo.lines[i].cpus => i <= j

\* the PartitionInfo that the line reports
InfoOfLine(l) ==
    [name |-> l.name, cpus_per_node |-> l.cpus, memory_mb |-> l.mem,
     memory_display |-> FormatMemory(l.mem), gpus |-> l.gpus, max_time |-> l.max_time]

\* C13: query_partition_resources returns, for each partition name reported on
\* one or more lines ('*' stripped), exactly one PartitionInfo, whose
\* cpus_per_node is the maximum CPU count over the lines of that name and whose
\* memory, gpus and max_time are those of the first line that attains it; lines
\* with fewer than 5 fields or an empty name are skipped
C13_MaxCpuPerPartition ==
    pc = "returned" =>
        /\ DictKeys(partition_infos) = {sinfo.lines[i].name : i \in CountedLines}
        /\ \A k1, k2 \in DOMAIN partition_infos :
               partition_infos[k1].k = partition_infos[k2].k => k1 = k2
        /\ \A k \in DOMAIN partition_infos :
               partition_infos[k].v = InfoOfLine(sinfo.lines[FirstMaxLine(partition_infos[k].k)])

\* partition gpu was reported with 32 CPUs, then twice with 64: it has the 64
\* CPUs and the memory of the second line
C13_Witness ==
    /\ pc = "returned"
    /\ Len(sinfo.lines) = 3
    /\ LinesOf(<<"g", "p", "u">>) = {1, 2, 3}
    /\ sinfo.lines[1].cpus = 32
    /\ sinfo.lines[2].cpus = 64
    /\ sinfo.lines[3].cpus = 64
    /\ sinfo.lines[2].mem # sinfo.lines[3].mem
    /\ DictGet(partition_infos, <<"g", "p", "u">>, None).cpus_per_node = 64
    /\ DictGet(partition_infos, <<"g", "p", "u">>, None).memory_mb = sinfo.lines[2].mem

-----------------------------------------------------------------------------
(* wrun: the saved defaults.  An option that was not given (None) is <<>>, one  *)
(* that was given is <<value>>.  A JSON value of the defaults file is           *)
(* [t |-> "int", v |-> n], [t |-> "str", v |-> text] or [t |-> "null"].         *)

JsonInt(n) == [t |-> "int", v |-> n]

JsonStr(s) == [t |-> "str", v |-> s]

JsonNull == [t |-> "null"]

\* DEFAULT_FIELD_TYPES
IntFields == {"nodes", "tasks_per_node", "cpus_per_task", "gpus"}

\* target_type(value) of get_default for a value that is not None: int(value),
\* None on ValueError
IntOfJson(value) ==
    IF value.t = "int" THEN <<value.v>>
    ELSE IF IntOk(value.v) THEN <<PyInt(value.v)>>
    ELSE <<>>

\* get_default from value = defaults[key] on
DefaultOfJson(key, value) ==
    IF value.t = "null" THEN <<>>
    ELSE IF key \in IntFields THEN IntOfJson(value)
    ELSE <<value.v>>

get_default(defaults, key) ==
    IF ~DictHas(defaults, key) THEN <<>>
    ELSE DefaultOfJson(key, DictGet(defaults, key, JsonNull))

\* load_user_defaults(): the stored object, or {} when the file is missing,
\* corrupted or not a JSON object
load_user_defaults(file) == IF file.state = "object" THEN file.data ELSE <<>>

\* defaults.update(updates)
RECURSIVE DictUpdate(_, _)
DictUpdate(d, updates) ==
    IF updates = <<>> THEN d
    ELSE DictUpdate(DictSet(d, Head(updates).k, Head(updates).v), Tail(updates))

\* save_user_defaults that writes the updates alone
save_user_defaults_Replace(file, updates) ==
    [state |-> "object", data |-> DictUpdate(<<>>, updates)]

\* save_user_defaults(updates): the file after json.dump
save_user_defaults(file, updates) ==
    [state |-> "object", data |-> DictUpdate(load_user_defaults(file), updates)]

\* the fields of collect_default_updates.  (The source iterates over a set of
\* strings, whose order Python does not fix; it is the order of the entries of
\* updates and of nothing else.)
UpdateFields ==
    <<"partition", "account", "nodes", "tasks_per_node", "cpus_per_task", "memory", "gpus",
      "time", "report_dir", "script_dir">>

\* what json.dump writes for an option value
JsonOf(field, value) == IF field \in IntFields THEN JsonInt(value) ELSE JsonStr(value)

\* collect_default_updates(args), field by field
RECURSIVE collect_default_updates(_, _)
collect_default_updates(a, fields) ==
    IF fields = <<>> THEN <<>>
    ELSE (IF a[Head(fields)] # <<>>
          THEN <<[k |-> Head(fields), v |-> JsonOf(Head(fields), a[Head(fields)][1])]>>
          ELSE <<>>)
         \o collect_default_updates(a, Tail(fields))

-----------------------------------------------------------------------------
(* wrun: resolve_job_config *)

DEFAULT_REPORT_DIR == <<".", "/", "s", "l", "u", "r", "m", "-", "r", "e", "p", "o", "r", "t">>

DEFAULT_SCRIPT_DIR == <<".", "/", "s", "l", "u", "r", "m", "_", "r", "u", "n">>

DEFAULT_TIME == <<"4", "-", "0", "0", ":", "0", "0", ":", "0", "0">>

\* the keys resolve_job_config passes to use_default before the account, in order
DefaultKeys ==
    <<"partition", "nodes", "tasks_per_node", "cpus_per_task", "memory", "gpus", "time",
      "report_dir", "script_dir">>

\* the fields that can be prompted for and auto-detected, in the order of the code
JobFields ==
    <<"partition", "nodes", "tasks_per_node", "cpus_per_task", "memory", "gpus", "time">>

\* use_default that prefers the saved default to the value given
use_default_SavedFirst(current_value, defaults, key) ==
    IF get_default(defaults, key) # <<>> THEN get_default(defaults, key) ELSE current_value

\* use_default(current_value, key): the value
use_default(current_value, defaults, key) ==
    IF current_value # <<>> THEN current_value ELSE get_default(defaults, key)

\* the values after the use_default calls
WithDefaults(a, defaults) ==
    [key \in Range(DefaultKeys) |-> use_default(a[key], defaults, key)]

\* default_fields: the keys that use_default took from the saved defaults
DefaultFields(a, defaults, keys) ==
    SelectSeq(keys, LAMBDA key : a[key] = <<>> /\ get_default(defaults, key) # <<>>)

\* the keys of which values has none
NoneOf(values, keys) == SelectSeq(keys, LAMBDA key : values[key] = <<>>)

need_partition_data(values) ==
    NoneOf(values, <<"partition", "cpus_per_task", "memory", "gpus", "time">>) # <<>>

\* query_partition_resources() when it is needed; it is not called otherwise
QueryIfNeeded(values, si) ==
    IF need_partition_data(values) THEN query_partition_resources(si) ELSE [val |-> <<>>]

\* missing_fields
MissingFields(a, defaults, values) ==
    NoneOf(values, JobFields)
    \o (IF a.account = <<>> /\ get_default(defaults, "account") = <<>>
        THEN <<"account">> ELSE <<>>)

\* prompt_missing_params when questionary is installed.  The user answers every
\* prompt (ans[field] is the answer), so no prompt falls back to its default;
\* min(default, max_val) of prompt_tasks_per_node and prompt_gpus is evaluated
\* before the prompt and raises TypeError when the stored default
\* defaults.get(field) is not a number, which is the case whenever the field is
\* stored and missing
PromptMissingParams(missing_fields, defaults, ans) ==
    IF \E field \in {"tasks_per_node", "gpus"} :
           field \in Range(missing_fields) /\ DictHas(defaults, field)
    THEN Raise("TypeError")
    ELSE [val |-> [i \in DOMAIN missing_fields |->
                      [k |-> missing_fields[i], v |-> ans[missing_fields[i]]]]]

\* interactive_results
InteractiveResults(missing_fields, defaults, use_defaults, ans) ==
    IF missing_fields # <<>> /\ ~use_defaults /\ ans.installed
    THEN PromptMissingParams(missing_fields, defaults, ans)
    ELSE [val |-> <<>>]

\* the values after "Apply interactive results"
ApplyResults(values, results) ==
    [key \in DOMAIN values |->
        IF key \in Range(JobFields) /\ DictHas(results, key)
        THEN <<DictGet(results, key, None)>> ELSE values[key]]

\* max(partition_infos.values(), key=lambda info: (cpus_per_node, gpus, memory_mb)):
\* the first of the greatest
KeyLess(x, y) ==
    \/ x.cpus_per_node < y.cpus_per_node
    \/ x.cpus_per_node = y.cpus_per_node /\ x.gpus < y.gpus
    \/ x.cpus_per_node = y.cpus_per_node /\ x.gpus = y.gpus /\ x.memory_mb < y.memory_mb

MaxPartition(infos) ==
    infos[FirstOf({i \in DOMAIN infos : \A j \in DOMAIN infos : ~KeyLess(infos[i].v, infos[j].v)})].v

\* partition_info: the greatest partition when none is chosen, else the chosen
\* one if sinfo reported it
PartitionInfoOf(values, infos) ==
    IF values["partition"] = <<>> THEN MaxPartition(infos)
    ELSE DictGet(infos, values["partition"][1], None)

\* the value auto-detection gives a field that is still None
AutoValue(key, partition_info) ==
    CASE key = "partition" -> partition_info.name
      [] key \in {"nodes", "tasks_per_node"} -> 1
      [] key = "cpus_per_task" -> partition_info.cpus_per_node
      [] key = "memory" -> partition_info.memory_display
      [] key = "gpus" -> IF partition_info # None THEN partition_info.gpus ELSE 1
      [] key = "time" -> IF partition_info # None /\ partition_info.max_time # <<>>
                         THEN partition_info.max_time ELSE DEFAULT_TIME

\* the RuntimeError of a field that cannot be auto-detected, if there is one
AutoError(values, infos) ==
    IF values["partition"] = <<>> /\ infos = <<>>
    THEN RaiseMsg("RuntimeError", <<"U", "n", "a", "b", "l", "e", " ", "t", "o", " ", "d", "e", "t", "e", "r", "m", "i", "n", "e", " ", "p", "a", "r", "t", "i", "t", "i", "o", "n", ".", " ", "P", "r", "o", "v", "i", "d", "e", " ", "-", "-", "p", "a", "r", "t", "i", "t", "i", "o", "n", " ", "o", "r", " ", "e", "n", "s", "u", "r", "e", " ", "'", "s", "i", "n", "f", "o", "'", " ", "i", "s", " ", "a", "v", "a", "i", "l", "a", "b", "l", "e", ".">>)
    ELSE IF values["cpus_per_task"] = <<>> /\ PartitionInfoOf(values, infos) = None
    THEN RaiseMsg("RuntimeError", <<"U", "n", "a", "b", "l", "e", " ", "t", "o", " ", "d", "e", "t", "e", "r", "m", "i", "n", "e", " ", "C", "P", "U", "s", " ", "p", "e", "r", " ", "t", "a", "s", "k", ".", " ", "P", "r", "o", "v", "i", "d", "e", " ", "-", "-", "c", "p", "u", "s", "-", "p", "e", "r", "-", "t", "a", "s", "k", " ", "o", "r", " ", "e", "n", "s", "u", "r", "e", " ", "'", "s", "i", "n", "f", "o", "'", " ", "i", "s", " ", "a", "v", "a", "i", "l", "a", "b", "l", "e", ".">>)
    ELSE IF values["memory"] = <<>> /\ PartitionInfoOf(values, infos) = None
    THEN RaiseMsg("RuntimeError", <<"U", "n", "a", "b", "l", "e", " ", "t", "o", " ", "d", "e", "t", "e", "r", "m", "i", "n", "e", " ", "m", "e", "m", "o", "r", "y", ".", " ", "P", "r", "o", "v", "i", "d", "e", " ", "-", "-", "m", "e", "m", "o", "r", "y", " ", "o", "r", " ", "e", "n", "s", "u", "r", "e", " ", "'", "s", "i", "n", "f", "o", "'", " ", "i", "s", " ", "a", "v", "a", "i", "l", "a", "b", "l", "e", ".">>)
    ELSE None

\* a field's final value
Resolved(values, key, partition_info) ==
    IF values[key] # <<>> THEN values[key][1] ELSE AutoValue(key, partition_info)

\* get_default_account() when sacctmgr behaves as sa: the first line of its
\* output, None (<<>>) when that is empty
get_default_account(sa) ==
    IF sa.status \in {"CalledProcessError", "FileNotFoundError"}
    THEN RaiseMsg("RuntimeError", <<"U", "n", "a", "b", "l", "e", " ", "t", "o", " ", "r", "e", "t", "r", "i", "e", "v", "e", " ", "d", "e", "f", "a", "u", "l", "t", " ", "S", "L", "U", "R", "M", " ", "a", "c", "c", "o", "u", "n", "t", ".", " ", "E", "n", "s", "u", "r", "e", " ", "'", "s", "a", "c", "c", "t", "m", "g", "r", "'", " ", "i", "s", " ", "i", "n", "s", "t", "a", "l", "l", "e", "d", ".">>)
    ELSE [val |-> IF Strip(Split(Strip(sa.out), <<"\n">>)[1]) = <<>> THEN <<>>
                  ELSE <<Strip(Split(Strip(sa.out), <<"\n">>)[1])>>]

\* account before get_default_account: the option, the saved default, the answer
AccountGiven(a, defaults, results) ==
    IF use_default(a.account, defaults, "account") # <<>>
    THEN use_default(a.account, defaults, "account")
    ELSE IF DictHas(results, "account") THEN <<DictGet(results, "account", None)>>
    ELSE <<>>

\* account: [val |-> <<account>> or <<>>], or the RuntimeError of sacctmgr
AccountOf(a, defaults, results, sa) ==
    IF AccountGiven(a, defaults, results) # <<>>
    THEN [val |-> AccountGiven(a, defaults, results)]
    ELSE get_default_account(sa)

\* interactive only when -i is given
IsInteractive_FlagOnly(a) == a.interactive

\* interactive: -i, no command, or the single word bash
IsInteractive(a) ==
    \/ a.interactive
    \/ a.command = <<>>
    \/ Len(a.command) = 1 /\ Strip(a.command[1]) = <<"b", "a", "s", "h">>

\* str(account): 'None' when sacctmgr printed nothing
StrOfAccount(account) == IF account = <<>> THEN <<"N", "o", "n", "e">> ELSE account[1]

\* JobConfig(...)
JobConfig(a, values, partition_info, account) ==
    [nodes |-> Resolved(values, "nodes", partition_info),
     partition |-> Resolved(values, "partition", partition_info),
     account |-> StrOfAccount(account),
     tasks_per_node |-> Resolved(values, "tasks_per_node", partition_info),
     cpus_per_task |-> Resolved(values, "cpus_per_task", partition_info),
     memory |-> Resolved(values, "memory", partition_info),
     gpus |-> Resolved(values, "gpus", partition_info),
     time |-> Resolved(values, "time", partition_info),
     report_dir |-> IF values["report_dir"] # <<>> /\ values["report_dir"] # << <<>> >>
                    THEN values["report_dir"][1] ELSE DEFAULT_REPORT_DIR,
     command |-> a.command,
     nodelist |-> a.nodelist,
     exclude |-> a.exclude,
     job_name |-> a.job_name,
     interactive |-> IsInteractive(a)]

\* the tuple resolve_job_config returns
ResultOf(a, defaults, values, infos, results, account) ==
    IF IsExc(account) THEN account
    ELSE [config |-> JobConfig(a, values, PartitionInfoOf(values, infos), account.val),
          auto_fields |-> NoneOf(values, JobFields)
                          \o (IF AccountGiven(a, defaults, results) = <<>>
                              THEN <<"account">> ELSE <<>>),
          default_fields |-> DefaultFields(a, defaults, DefaultKeys \o <<"account">>),
          script_dir |-> IF values["script_dir"] # <<>> /\ values["script_dir"] # << <<>> >>
                         THEN values["script_dir"][1] ELSE DEFAULT_SCRIPT_DIR]

\* resolve_job_config from the auto-detection on
Detect(a, defaults, values, infos, results, sa) ==
    IF AutoError(values, infos) # None THEN AutoError(values, infos)
    ELSE ResultOf(a, defaults, values, infos, results, AccountOf(a, defaults, results, sa))

\* resolve_job_config from the prompts on
Prompted(a, defaults, values, infos, results, sa) ==
    IF IsExc(results) THEN results
    ELSE Detect(a, defaults, ApplyResults(values, results.val), infos, results.val, sa)

\* resolve_job_config from the result of the query on: a failed sinfo is fatal
\* only if partition, cpus_per_task, memory or gpus is still None
Queried(a, defaults, use_defaults, values, queried, sa, ans) ==
    IF IsExc(queried) /\ NoneOf(values, <<"partition", "cpus_per_task", "memory", "gpus">>) # <<>>
    THEN queried
    ELSE Prompted(a, defaults, values, IF IsExc(queried) THEN <<>> ELSE queried.val,
                  InteractiveResults(MissingFields(a, defaults, values), defaults, use_defaults, ans),
                  sa)

resolve_job_config(a, defaults, use_defaults, si, sa, ans) ==
    Queried(a, defaults, use_defaults, WithDefaults(a, defaults),
            QueryIfNeeded(WithDefaults(a, defaults), si), sa, ans)

-----------------------------------------------------------------------------
(* wrun: what main is given *)

\* no option given
NoOptions ==
    [partition |-> <<>>, account |-> <<>>, nodes |-> <<>>, tasks_per_node |-> <<>>,
     cpus_per_task |-> <<>>, memory |-> <<>>, gpus |-> <<>>, time |-> <<>>,
     report_dir |-> <<>>, script_dir |-> <<>>, nodelist |-> <<>>, exclude |-> <<>>,
     job_name |-> <<>>]

\* every option given
AllOptions ==
    [partition |-> <<<<"g", "p", "u">>>>, account |-> <<<<"p", "r", "o", "j">>>>, nodes |-> <<2>>,
     tasks_per_node |-> <<1>>, cpus_per_task |-> <<8>>, memory |-> <<<<"1", "6", "G">>>>,
     gpus |-> <<0>>, time |-> <<<<"1", ":", "0", "0", ":", "0", "0">>>>, report_dir |-> <<<<"l", "o", "g", "s">>>>,
     script_dir |-> <<<<"s", "c", "r", "i", "p", "t", "s">>>>, nodelist |-> <<<<"n", "1">>>>, exclude |-> <<>>,
     job_name |-> <<<<"j">>>>]

\* the options of a command line: none, all, all but the time limit, and two
\* whose values are 0 and the empty string
Options ==
    {NoOptions, AllOptions, [AllOptions EXCEPT !.time = <<>>, !.account = <<>>],
     [NoOptions EXCEPT !.nodes = <<0>>, !.memory = << <<>> >>]}

Commands ==
    {<<>>, <<<<"b", "a", "s", "h">>>>, <<<<"b", "a", "s", "h">>, <<"x", ".", "s", "h">>>>,
     <<<<"p", "y", "t", "h", "o", "n">>, <<"t", ".", "p", "y">>>>}

\* the namespace parse_args returns
RunArgs(options, interactive, dry_run, use_defaults, save_defaults, command) ==
    [partition |-> options.partition, account |-> options.account, nodes |-> options.nodes,
     tasks_per_node |-> options.tasks_per_node, cpus_per_task |-> options.cpus_per_task,
     memory |-> options.memory, gpus |-> options.gpus, time |-> options.time,
     report_dir |-> options.report_dir, script_dir |-> options.script_dir,
     nodelist |-> options.nodelist, exclude |-> options.exclude, job_name |-> options.job_name,
     interactive |-> interactive, dry_run |-> dry_run, defaults |-> use_defaults,
     save_defaults |-> save_defaults, command |-> command]

WrunArgs ==
    {RunArgs(o, i, dr, d, sd, c) :
        o \in Options, i \in BOOLEAN, dr \in BOOLEAN, d \in BOOLEAN, sd \in BOOLEAN,
        c \in Commands}

\* the defaults file: missing, not JSON, JSON but no object, and two stored
\* objects, the second with a value that is no number for an integer field
DefaultsFiles ==
    {NoDefaultsFile,
     [state |-> "corrupt", data |-> <<>>],
     [state |-> "not_object", data |-> <<>>],
     [state |-> "object",
      data |-> <<[k |-> "partition", v |-> JsonStr(<<"c", "p", "u">>)], [k |-> "nodes", v |-> JsonStr(<<"2">>)],
                 [k |-> "cpus_per_task", v |-> JsonInt(4)], [k |-> "memory", v |-> JsonStr(<<"8", "G">>)],
                 [k |-> "gpus", v |-> JsonInt(1)], [k |-> "time", v |-> JsonStr(<<"2", ":", "0", "0", ":", "0", "0">>)],
                 [k |-> "account", v |-> JsonStr(<<"s", "a", "v", "e", "d">>)]>>],
     [state |-> "object",
      data |-> <<[k |-> "tasks_per_node", v |-> JsonStr(<<"m", "a", "n", "y">>)],
                 [k |-> "script_dir", v |-> JsonStr(<<"s">>)]>>]}

\* sinfo reports two partitions, or fails
WrunSinfo ==
    {SinfoOk(<<SinfoLine(<<"g", "p", "u">>, TRUE, <<"6", "4">>, 64, <<"1", "9", "1", "9", "9", "7">>, 191997, <<"g", "p", "u", ":", "a", "1", "0", "0", ":", "4">>, 4,
                         <<"4", "-", "0", "0", ":", "0", "0", ":", "0", "0">>, <<"4", "-", "0", "0", ":", "0", "0", ":", "0", "0">>),
               SinfoLine(<<"c", "p", "u">>, FALSE, <<"3", "2", "+">>, 1, <<"4", "0", "9", "6", "+">>, 4096, <<>>, 1,
                         <<"3", "0", ":", "0", "0">>, <<"3", "0", ":", "0", "0">>)>>),
     [status |-> "FileNotFoundError", lines |-> <<>>, out |-> <<>>]}

\* sacctmgr prints an account, prints nothing, or fails
SacctmgrOutcomes ==
    {[status |-> "ok", out |-> <<"t", "e", "a", "m", "\n">>], [status |-> "ok", out |-> <<"\n">>],
     [status |-> "CalledProcessError", out |-> <<>>]}

\* questionary is not installed, or it is and the user gives these answers
AnswerSets ==
    {NoAnswers,
     [installed |-> TRUE, partition |-> <<"g", "p", "u">>, account |-> <<"m", "i", "n", "e">>, nodes |-> 3,
      tasks_per_node |-> 2, cpus_per_task |-> 16, memory |-> <<"3", "2", "G">>, gpus |-> 2,
      time |-> <<"1", "2", ":", "0", "0", ":", "0", "0">>]}

\* what running srun or sbatch does
ToolOutcomes == {"ok", "CalledProcessError", "FileNotFoundError"}

-----------------------------------------------------------------------------
(* wrun: main.  The summary table and the sbatch script are kept as what they   *)
(* are made from, not as text.                                                  *)

\* build_sbatch_script(config): the template's fields; a batch job without a
\* command raises ValueError (command_for_script)
build_sbatch_script(config) ==
    IF config.command = <<>> THEN RaiseMsg("ValueError", <<"B", "a", "t", "c", "h", " ", "j", "o", "b", "s", " ", "r", "e", "q", "u", "i", "r", "e", " ", "a", " ", "c", "o", "m", "m", "a", "n", "d", " ", "t", "o", " ", "e", "x", "e", "c", "u", "t", "e", ".">>)
    ELSE [val |-> [script |-> config]]

\* print_job_summary(config, auto_fields, default_fields, mode, script_path)
Summary(r, mode, script_path) ==
    [summary |-> r.config, auto_fields |-> r.auto_fields, default_fields |-> r.default_fields,
     mode |-> mode, script_path |-> script_path]

\* the file main leaves after --save-defaults, without `if updates`
SavedFile_Always(file, updates) == save_user_defaults(file, updates)

\* the file main leaves after --save-defaults: written only if updates is not empty
SavedFile(file, updates) ==
    IF updates # <<>> THEN save_user_defaults(file, updates) ELSE file

\* what load_user_defaults prints
LoadMessages(file) ==
    IF file.state = "corrupt" THEN <<PrintLine(<<"I", "g", "n", "o", "r", "i", "n", "g", " ", "c", "o", "r", "r", "u", "p", "t", "e", "d", " ", "d", "e", "f", "a", "u", "l", "t", "s", " ", "f", "i", "l", "e", " ", "a", "t", " ", "~", "/", ".", "c", "o", "n", "f", "i", "g", "/", "w", "r", "a", "p", "s", "l", "u", "r", "m", "/", "d", "e", "f", "a", "u", "l", "t", "s", ".", "j", "s", "o", "n">>)>>
    ELSE IF file.state = "not_object" THEN <<PrintLine(<<"I", "g", "n", "o", "r", "i", "n", "g", " ", "m", "a", "l", "f", "o", "r", "m", "e", "d", " ", "d", "e", "f", "a", "u", "l", "t", "s", " ", "a", "t", " ", "~", "/", ".", "c", "o", "n", "f", "i", "g", "/", "w", "r", "a", "p", "s", "l", "u", "r", "m", "/", "d", "e", "f", "a", "u", "l", "t", "s", ".", "j", "s", "o", "n", ":", " ", "e", "x", "p", "e", "c", "t", "e", "d", " ", "a", "n", " ", "o", "b", "j", "e", "c", "t">>)>>
    ELSE <<>>

\* what main prints for --save-defaults; save_user_defaults loads the file again
SaveMessages(file, updates) ==
    IF updates # <<>>
    THEN LoadMessages(file) \o <<PrintLine(<<"S", "a", "v", "e", "d", " ", "d", "e", "f", "a", "u", "l", "t", "s", " ", "t", "o", " ", "~", "/", ".", "c", "o", "n", "f", "i", "g", "/", "w", "r", "a", "p", "s", "l", "u", "r", "m", "/", "d", "e", "f", "a", "u", "l", "t", "s", ".", "j", "s", "o", "n">>)>>
    ELSE <<PrintLine(<<"N", "o", " ", "v", "a", "l", "u", "e", "s", " ", "p", "r", "o", "v", "i", "d", "e", "d", " ", "t", "o", " ", "s", "a", "v", "e", " ", "a", "s", " ", "d", "e", "f", "a", "u", "l", "t", "s", ".">>)>>

InitRun ==
    /\ pc = "wrun"
    /\ args \in WrunArgs
    /\ defaults_file \in DefaultsFiles
    /\ sinfo \in WrunSinfo
    /\ sacctmgr \in SacctmgrOutcomes
    /\ answers \in AnswerSets
    /\ partition_infos = <<>>
    /\ resolved = None
    /\ commands = <<>>
    /\ files = <<>>
    /\ exc = None
    /\ stdout = <<>>
    /\ stderr = <<>>
    /\ exit_code = NoExit
    /\ WinfoIdle

\* main up to resolve_job_config: the defaults are loaded, and --save-defaults
\* saves the given values and returns
WrunMain ==
    /\ pc = "wrun"
    /\ IF args.save_defaults
       THEN /\ defaults_file' = SavedFile(defaults_file, collect_default_updates(args, UpdateFields))
            /\ stdout' = stdout \o LoadMessages(defaults_file)
                         \o SaveMessages(defaults_file, collect_default_updates(args, UpdateFields))
            /\ pc' = "wrun_return"
       ELSE /\ stdout' = stdout \o LoadMessages(defaults_file)
            /\ pc' = "resolve_job_config"
            /\ UNCHANGED defaults_file
    /\ UNCHANGED <<args, exc, exit_code, stderr, sinfo, sacctmgr, answers, partition_infos,
                   resolved, commands, files>>
    /\ UNCHANGED winfo_vars

\* where main goes with a resolved config
AfterResolve(a, config) ==
    IF config.interactive THEN "run_interactive"
    ELSE IF a.dry_run THEN "dry_run"
    ELSE "generate_sbatch_script"

\* the call returns r, or r leaves it as an exception
ReturnResolved(r) ==
    IF IsExc(r)
    THEN /\ exc' = r
         /\ pc' = "wrun_raised"
         /\ UNCHANGED resolved
    ELSE /\ resolved' = r
         /\ pc' = AfterResolve(args, r.config)
         /\ UNCHANGED exc

ResolveJobConfig ==
    /\ pc = "resolve_job_config"
    /\ ReturnResolved(resolve_job_config(args, load_user_defaults(defaults_file), args.defaults,
                                         sinfo, sacctmgr, answers))
    /\ UNCHANGED <<args, stdout, exit_code, stderr, sinfo, sacctmgr, defaults_file, answers,
                   partition_infos, commands, files>>
    /\ UNCHANGED winfo_vars

\* print_job_summary and run_interactive: srun runs (its exit status is not
\* looked at), or is not installed
RunInteractive ==
    /\ pc = "run_interactive"
    /\ stdout' = stdout \o <<Summary(resolved, "Interactive", <<>>),
                             [starting |-> resolved.config]>>
    /\ commands' = Append(commands, [tool |-> "srun", config |-> resolved.config])
    /\ \E outcome \in ToolOutcomes :
           IF outcome = "FileNotFoundError"
           THEN /\ exc' = Raise("FileNotFoundError")
                /\ pc' = "wrun_raised"
           ELSE /\ pc' = "wrun_return"
                /\ UNCHANGED exc
    /\ UNCHANGED <<args, exit_code, stderr, sinfo, sacctmgr, defaults_file, answers,
                   partition_infos, resolved, files>>
    /\ UNCHANGED winfo_vars

\* --dry-run: the summary and the script are printed (the dash of the source's
\* message is written '-')
DryRun ==
    /\ pc = "dry_run"
    /\ IF IsExc(build_sbatch_script(resolved.config))
       THEN stdout' = Append(stdout, PrintLine(<<"E", "r", "r", "o", "r", ":", " ">> \o build_sbatch_script(resolved.config).msg))
       ELSE stdout' = stdout \o <<Summary(resolved, "Batch", <<>>),
                                  PrintLine(<<"\n", "D", "r", "y", " ", "r", "u", "n", " ", "e", "n", "a", "b", "l", "e", "d", " ", "-", " ", "s", "b", "a", "t", "c", "h", " ", "s", "c", "r", "i", "p", "t", " ", "p", "r", "e", "v", "i", "e", "w", ":", "\n">>),
                                  build_sbatch_script(resolved.config).val>>
    /\ pc' = "wrun_return"
    /\ UNCHANGED <<args, exc, exit_code, stderr, sinfo, sacctmgr, defaults_file, answers,
                   partition_infos, resolved, commands, files>>
    /\ UNCHANGED winfo_vars

\* generate_sbatch_script writes the script under script_dir; main prints the
\* summary
GenerateSbatchScript ==
    /\ pc = "generate_sbatch_script"
    /\ IF IsExc(build_sbatch_script(resolved.config))
       THEN /\ stdout' = Append(stdout, PrintLine(<<"E", "r", "r", "o", "r", ":", " ">> \o build_sbatch_script(resolved.config).msg))
            /\ pc' = "wrun_return"
            /\ UNCHANGED files
       ELSE /\ files' = Append(files, [dir |-> resolved.script_dir,
                                       content |-> build_sbatch_script(resolved.config).val])
            /\ stdout' = stdout \o <<[generated |-> resolved.script_dir],
                                     Summary(resolved, "Batch", <<resolved.script_dir>>)>>
            /\ pc' = "submit_sbatch"
    /\ UNCHANGED <<args, exc, exit_code, stderr, sinfo, sacctmgr, defaults_file, answers,
                   partition_infos, resolved, commands>>
    /\ UNCHANGED winfo_vars

\* submit_sbatch: sbatch runs on the script; its failure is printed, its absence
\* is not caught
SubmitSbatch ==
    /\ pc = "submit_sbatch"
    /\ commands' = Append(commands, [tool |-> "sbatch", script |-> Len(files)])
    /\ \E outcome \in ToolOutcomes :
           IF outcome = "FileNotFoundError"
           THEN /\ exc' = Raise("FileNotFoundError")
                /\ pc' = "wrun_raised"
                /\ UNCHANGED stdout
           ELSE /\ stdout' = Append(stdout, [submitted |-> outcome = "ok"])
                /\ pc' = "wrun_return"
                /\ UNCHANGED exc
    /\ UNCHANGED <<args, exit_code, stderr, sinfo, sacctmgr, defaults_file, answers,
                   partition_infos, resolved, files>>
    /\ UNCHANGED winfo_vars

\* main returns; the console script ends with sys.exit(main()), main() being None
WrunReturn ==
    /\ pc = "wrun_return"
    /\ pc' = "exit"
    /\ exit_code' = 0
    /\ UNCHANGED <<args, exc, stdout, stderr>>
    /\ UNCHANGED wrun_vars
    /\ UNCHANGED winfo_vars

\* except RuntimeError as exc: print(f"Error: {exc}"); return
WrunExcept ==
    /\ pc = "wrun_raised"
    /\ exc.exc = "RuntimeError"
    /\ stdout' = Append(stdout, PrintLine(<<"E", "r", "r", "o", "r", ":", " ">> \o exc.msg))
    /\ pc' = "exit"
    /\ exit_code' = 0
    /\ UNCHANGED <<args, exc, stderr>>
    /\ UNCHANGED wrun_vars
    /\ UNCHANGED winfo_vars

\* any other exception leaves main: the interpreter prints the traceback and
\* exits with status 1
WrunUncaught ==
    /\ pc = "wrun_raised"
    /\ exc.exc # "RuntimeError"
    /\ stderr' = Append(stderr, [traceback |-> exc.exc])
    /\ pc' = "exit"
    /\ exit_code' = 1
    /\ UNCHANGED <<args, exc, stdout>>
    /\ UNCHANGED wrun_vars
    /\ UNCHANGED winfo_vars

NextRun ==
    \/ WrunMain
    \/ ResolveJobConfig
    \/ RunInteractive
    \/ DryRun
    \/ GenerateSbatchScript
    \/ SubmitSbatch
    \/ WrunReturn
    \/ WrunExcept
    \/ WrunUncaught

SpecRun == InitRun /\ [][NextRun]_vars

-----------------------------------------------------------------------------
(* Properties of wrun's main *)

\* C11: with --dry-run, whatever the other options and the command are, wrun
\* never invokes srun or sbatch and never writes a script file.
C11_DryRunNeverSubmits == args.dry_run => (commands = <<>> /\ files = <<>>)

\* the option values given on the command line are the stored values
GivenValuesStored ==
    /\ defaults_file.state = "object"
    /\ \A i \in DOMAIN UpdateFields :
           args[UpdateFields[i]] # <<>> =>
               /\ DictHas(defaults_file.data, UpdateFields[i])
               /\ DictGet(defaults_file.data, UpdateFields[i], JsonNull)
                      = JsonOf(UpdateFields[i], args[UpdateFields[i]][1])

\* with --save-defaults main only saves and returns
SaveDefaultsOnly ==
    args.save_defaults =>
        /\ pc \in {"wrun", "wrun_return", "exit"}
        /\ resolved = None
        /\ partition_infos = <<>>
        /\ commands = <<>>
        /\ files = <<>>
        /\ exc = None
        /\ (pc = "exit" => exit_code = 0)
        /\ (pc # "wrun" /\ collect_default_updates(args, UpdateFields) # <<>> => GivenValuesStored)

\* a step that leaves the defaults file as it was
DefaultsFileKept ==
    (args.save_defaults /\ (pc # "wrun" \/ collect_default_updates(args, UpdateFields) = <<>>))
        => defaults_file' = defaults_file

\* C12: with --save-defaults main stores the option values given on the command
\* line and returns: no job configuration is resolved, no script is written, no
\* srun or sbatch is invoked; without a persistable option value the defaults
\* file is not written.
C12_SaveDefaultsOnly == []SaveDefaultsOnly /\ [][DefaultsFileKept]_vars

\* wrun --save-defaults with option values has returned and the file holds them
C12_Witness ==
    /\ pc = "exit"
    /\ args.save_defaults
    /\ collect_default_updates(args, UpdateFields) # <<>>
    /\ defaults_file.state = "object"

-----------------------------------------------------------------------------
(* Error handling of the parsing functions *)

\* a block with a NodeName whose CPULoad token is no number
MalformedBlock(b) == b.NodeName # <<>> /\ b.CPULoad = <<<<"N", "/", "A">>>>

\* the blocks of scontrol's output without the malformed ones
WellFormedBlocks(blocks) == SelectSeq(blocks, LAMBDA b : ~MalformedBlock(b))

\* C21: a block with a NodeName and a malformed field value (CPULoad=N/A) does
\* not make get_node_info raise: the call returns, and the list it returns holds
\* the records of all the other blocks.
C21_MalformedBlockSkipped ==
    (scontrol.status = "ok" /\ \E j \in DOMAIN scontrol.blocks : MalformedBlock(scontrol.blocks[j]))
        => /\ ~(pc = "raised" /\ IsExc(exc) /\ exc.exc = "ValueError")
           /\ pc = "display_nodes"
              => [i \in DOMAIN nodes |-> nodes[i].NodeName]
                 = ExpectedListing(WellFormedBlocks(scontrol.blocks), args.include_down)

\* node lists with a range part that is not <digits>-<digits>
BadRangeLists == {<<"n", "[", "a", "-", "b", "]">>, <<"n", "[", "0", "1", "-", "0", "3", "-", "0", "5", "]">>, <<"n", "[", "1", "-", "]">>}

\* a row with fewer than three fields, or with such a range part
MalformedRow(i) ==
    \/ squeue.rows[i].kind = "short"
    \/ /\ squeue.rows[i].kind = "row"
       /\ squeue.rows[i].nodelist.kind = "raw"
       /\ squeue.rows[i].nodelist.text \in BadRangeLists

\* no claim of the mapping carries job_id
NoClaimOf(mapping, job_id) ==
    \A k \in DOMAIN mapping : \A j \in DOMAIN mapping[k].v : mapping[k].v[j][1] # job_id

\* C22: a malformed running-queue row (fewer than three fields, or a range part
\* that is not <digits>-<digits>) is never fatal to get_job_gpu_mapping: the call
\* does not raise, the row is left out of the result, and every well-formed row
\* before and after it is recorded.
C22_MalformedRowOmitted ==
    (squeue.status = "ok" /\ \E i \in DOMAIN squeue.rows : MalformedRow(i))
        => /\ pc # "raised"
           /\ pc = "returned"
              => /\ \A i \in DOMAIN squeue.rows :
                        MalformedRow(i) => NoClaimOf(job_mapping, JobIdAt(i))
                 /\ \A i \in FullRows :
                        (~MalformedRow(i) /\ ResolvedCount(i) # 0)
                            => ~NoClaimOf(job_mapping, JobIdAt(i))

\* the by-name fields of the record parse_node_data returns
NodeFields ==
    {"NodeName", "State", "Partitions", "CPUs", "Memory", "CPUAlloc", "CPUTot", "CPULoad",
     "GPUAlloc", "GPUTot", "GPUDetails", "GPUAllocByType"}

\* a string token's value, or the literal UNKNOWN when the token is missing
TokenOrUnknown(v) == IF v = <<>> THEN <<"U", "N", "K", "N", "O", "W", "N">> ELSE v[1]

\* the block names no total of GPUs: no GPU sub-token in CfgTRES, no Gres
GpuTotMissing(b) == ~ReportsGpus(b.CfgTRES) /\ b.Gres = <<>>

\* the block names no allocation of GPUs: no GPU sub-token in AllocTRES, no GresUsed
GpuAllocMissing(b) == ~ReportsGpus(b.AllocTRES) /\ b.GresUsed = <<>>

\* C23: for every block with a NodeName the record parse_node_data returns has
\* every field; CPUAlloc, CPUTot, CPULoad, GPUAlloc and GPUTot are 0 when their
\* token is missing; State and Partitions are the literal UNKNOWN when their
\* token is missing and the token's value verbatim otherwise.  (GPUTot's tokens
\* are CfgTRES and Gres; a CfgTRES without a GPU sub-token counts as missing in
\* the layout `scontrol show node` prints, one token group per line.)
C23_DefaultsOfMissingTokens ==
    (pc = "returned" /\ parse_data.block.NodeName # <<>>) =>
        /\ parse_node # None
        /\ DOMAIN parse_node = NodeFields
        /\ parse_node.NodeName = parse_data.block.NodeName[1]
        /\ parse_node.State = TokenOrUnknown(parse_data.block.State)
        /\ parse_node.Partitions = TokenOrUnknown(parse_data.block.Partitions)
        /\ parse_data.block.CPUAlloc = <<>> => parse_node.CPUAlloc = 0
        /\ parse_data.block.CPUTot = <<>> => parse_node.CPUTot = 0
        /\ parse_data.block.CPULoad = <<>> => SameFloat(parse_node.CPULoad, Float(0, 1))
        /\ GpuAllocMissing(parse_data.block) => parse_node.GPUAlloc = 0
        /\ (parse_data.block.CfgTRES = <<>> /\ parse_data.block.Gres = <<>>)
           => parse_node.GPUTot = 0
        /\ (GpuTotMissing(parse_data.block) /\ parse_data.block.layout = "lines")
           => parse_node.GPUTot = 0

\* a block that holds a NodeName and nothing else was parsed
C23_Witness ==
    /\ pc = "returned"
    /\ parse_data.block.NodeName # <<>>
    /\ parse_data.block.State = <<>>
    /\ parse_data.block.Partitions = <<>>
    /\ parse_data.block.CPUAlloc = <<>>
    /\ parse_data.block.CPUTot = <<>>
    /\ parse_data.block.CPULoad = <<>>
    /\ parse_data.block.CfgTRES = <<>>
    /\ parse_data.block.AllocTRES = <<>>
    /\ parse_node.State = <<"U", "N", "K", "N", "O", "W", "N">>
    /\ parse_node.GPUTot = 0

\* gpu_total_by_type of the block parse_node_data was given
TotalByType == GpuTotals(CfgTotals(TresText(ReSearch(RE_CfgTRES, parse_data.text))), parse_data.text).by_type

\* total_by_type[type] - allocated_by_type[type] of the record's node
AvailableOf(k) == TotalByType[k].v - DictGet(parse_node.GPUAllocByType, TotalByType[k].k, 0)

\* the entries of GPUDetails
DetailEntries == IF parse_node.GPUDetails = <<>> THEN <<>> ELSE Split(parse_node.GPUDetails, <<",", " ">>)

\* the types of gpu_total_by_type of which some GPU is available
AvailableTypes == {k \in DOMAIN TotalByType : AvailableOf(k) > 0}

\* C24: GPUDetails lists a type only when total_by_type[type] -
\* allocated_by_type[type] is strictly positive, and then with exactly that
\* difference: no listed count is zero or negative, even when the allocated
\* count of a type exceeds its total.
C24_AvailableByTypePositive ==
    (pc = "returned" /\ parse_node # None) =>
        /\ Len(DetailEntries) = Cardinality(AvailableTypes)
        /\ \A k \in AvailableTypes :
               \E j \in DOMAIN DetailEntries :
                   DetailEntries[j] = TotalByType[k].k \o <<"=">> \o Str(AvailableOf(k))
        /\ \A j \in DOMAIN DetailEntries :
               \E k \in AvailableTypes :
                   DetailEntries[j] = TotalByType[k].k \o <<"=">> \o Str(AvailableOf(k))

\* a node with a100 allocated beyond its total and one v free: only v is listed
C24_Witness ==
    /\ pc = "returned"
    /\ parse_node # None
    /\ \E k \in DOMAIN TotalByType : AvailableOf(k) < 0
    /\ \E k \in DOMAIN TotalByType : AvailableOf(k) > 0
    /\ parse_node.GPUDetails = <<"v", "=", "1">>

-----------------------------------------------------------------------------
(* Further properties of display_nodes *)

\* the configured minimum and the GPUTot of every displayed node
SlotCandidates == {args.slots} \cup {nodes[i].GPUTot : i \in DOMAIN nodes}

\* max(slots, the largest GPUTot among the displayed nodes)
ExpectedSlots == CHOOSE m \in SlotCandidates : \A x \in SlotCandidates : x <= m

\* the slot column headers of the table: the titles between GPUs and %CPU
SlotHeaders == {i \in DOMAIN table.titles : 6 < i /\ i < Len(table.titles)}

\* C25: in the table display_nodes builds, every row has as many GPU slot cells
\* as there are slot column headers, and that number is max(slots, the largest
\* GPUTot among the displayed nodes), whatever each node's allocation and
\* total are.
C25_SlotCellsMatchHeaders ==
    (pc = "displayed" /\ nodes # <<>>) =>
        /\ Cardinality(SlotHeaders) = ExpectedSlots
        /\ \A i \in SlotHeaders : table.titles[i] = <<" ", "#">> \o Str(i - 6) \o <<" ">>
        /\ table.titles[6] = <<"G", "P", "U", "s">>
        /\ table.titles[Len(table.titles)] = <<"%", "C", "P", "U">>
        /\ Len(table.rows) = Len(nodes)
        /\ \A r \in DOMAIN table.rows :
               /\ Len(table.rows[r]) = Len(table.titles)
               /\ table.rows[r][1] = nodes[r].NodeName
               /\ table.rows[r][6] = GpuInfo(nodes[r])
               /\ table.rows[r][Len(table.rows[r])] = Format(nodes[r].CPULoad, 2)

\* with a minimum of 8 slots, a node of 16 GPUs and a node with 10 of 8
\* allocated by type are shown: 16 slot columns, 16 cells in each row
C25_Witness ==
    /\ pc = "displayed"
    /\ args.slots = 8
    /\ Len(nodes) = 2
    /\ nodes[1].GPUTot = 16
    /\ nodes[2].GPUTot = 8 /\ nodes[2].GPUAlloc = 10 /\ nodes[2].GPUAllocByType # <<>>
    /\ Cardinality(SlotHeaders) = 16
    /\ Len(table.rows[2]) = 23

\* the first 4 characters of a type label, the whole label if it is shorter
Label4(gpu_type) == [i \in 1..Min(Len(gpu_type), 4) |-> gpu_type[i]]

\* the slot cells of row r, in order
SlotCells(r) == [i \in 1..(Len(table.rows[r]) - 7) |-> table.rows[r][6 + i]]

\* C26: for a node with per-type allocation data display_nodes fills the slots
\* [0, allocated), allocated being the node's aggregate allocated GPU count, each
\* with the first 4 characters of one of its GPU types, and leaves the slots
\* [allocated, total) and every slot from total onward blank; for a node without
\* type data the used slots carry '#' and the others are blank.
C26_SlotFill ==
    (pc = "displayed" /\ nodes # <<>>) =>
        \A r \in DOMAIN table.rows :
            \A i \in DOMAIN SlotCells(r) :
                IF nodes[r].GPUAllocByType # <<>>
                THEN /\ i <= nodes[r].GPUAlloc
                        => \E k \in DOMAIN nodes[r].GPUAllocByType :
                               SlotCells(r)[i] = Label4(nodes[r].GPUAllocByType[k].k)
                     /\ i > nodes[r].GPUAlloc => SlotCells(r)[i] = <<>>
                     /\ i > nodes[r].GPUTot => SlotCells(r)[i] = <<>>
                ELSE /\ i <= Min(nodes[r].GPUAlloc, nodes[r].GPUTot) => SlotCells(r)[i] = <<"#">>
                     /\ i > Min(nodes[r].GPUAlloc, nodes[r].GPUTot) => SlotCells(r)[i] = <<>>

-----------------------------------------------------------------------------
(* wcancel (wrapslurm/cancel_job.py): cancel_jobs called on its own.  The     *)
(* variable exit_code is the function's local exit_code while the loop runs  *)
(* and the value it returns (what main hands to sys.exit) afterwards;         *)
(* commands holds the scancel invocations with what became of each.           *)

MaxJobs == 3     \* cancel_jobs is given up to MaxJobs job ids

\* the job ids, scancel's --signal and --user ('' is given but falsy)
CancelJobIds == {<<"1", "0", "1">>, <<"a", "b", "c">>}

CancelSignals == {<<>>, <<<<>>>>, <<<<"K", "I", "L", "L">>>>}

CancelUsers == {<<>>, <<<<"a", "l", "i", "c", "e">>>>}

CancelArgs ==
    {[job_ids |-> ids, signal |-> sg, user |-> u] :
        ids \in SeqsUpTo(CancelJobIds, MaxJobs), sg \in CancelSignals, u \in CancelUsers}

\* what running scancel does: it succeeds, exits non-zero (check=True raises
\* CalledProcessError with that return code), or is not installed
ScancelOutcomes ==
    {[status |-> "ok", returncode |-> 0], [status |-> "FileNotFoundError", returncode |-> 0]}
    \cup {[status |-> "CalledProcessError", returncode |-> rc] : rc \in {1, -9}}

\* `if signal:` / `if user:` : given and not the empty string
Truthy(option) == option # <<>> /\ option[1] # <<>>

\* base_cmd
base_cmd(signal, user) ==
    <<<<"s", "c", "a", "n", "c", "e", "l">>>>
    \o (IF Truthy(signal) THEN <<<<"-", "-", "s", "i", "g", "n", "a", "l">>, signal[1]>> ELSE <<>>)
    \o (IF Truthy(user) THEN <<<<"-", "-", "u", "s", "e", "r">>, user[1]>> ELSE <<>>)

\* exc.returncode or 1
ReturnCodeOr1(returncode) == IF returncode = 0 THEN 1 ELSE returncode

\* exit_code after an attempt
CodeAfter(code, outcome) ==
    IF outcome.status = "FileNotFoundError" THEN 1
    ELSE IF outcome.status = "CalledProcessError" THEN ReturnCodeOr1(outcome.returncode)
    ELSE code

\* where the loop goes after an attempt that ends on any failure
AfterAttempt_StopOnFailure(status, last) ==
    IF status # "ok" \/ last THEN "cancel_returned" ELSE "scancel"

\* where the loop goes after an attempt: FileNotFoundError returns, the last
\* job id ends the loop, anything else goes on
AfterAttempt(status, last) ==
    IF status = "FileNotFoundError" \/ last THEN "cancel_returned" ELSE "scancel"

\* what the attempt prints; str(exc) of CalledProcessError is kept as its parts
CancelMessage(job_id, outcome) ==
    IF outcome.status = "ok" THEN PrintLine(<<"C", "a", "n", "c", "e", "l", "l", "e", "d", " ", "j", "o", "b", " ">> \o job_id)
    ELSE IF outcome.status = "FileNotFoundError"
    THEN PrintLine(<<"E", "r", "r", "o", "r", ":", " ", "'", "s", "c", "a", "n", "c", "e", "l", "'", " ", "c", "o", "m", "m", "a", "n", "d", " ", "n", "o", "t", " ", "f", "o", "u", "n", "d", ".", " ", "E", "n", "s", "u", "r", "e", " ", "S", "L", "U", "R", "M", " ", "c", "l", "i", "e", "n", "t", " ", "t", "o", "o", "l", "s", " ", "a", "r", "e", " ", "i", "n", "s", "t", "a", "l", "l", "e", "d", ".">>)
    ELSE [failed |-> job_id, returncode |-> outcome.returncode]

InitCancel ==
    /\ pc = "cancel_jobs"
    /\ args \in CancelArgs
    /\ commands = <<>>
    /\ exc = None
    /\ stdout = <<>>
    /\ stderr = <<>>
    /\ exit_code = NoExit
    /\ sinfo = NoSinfo
    /\ sacctmgr = NoSacctmgr
    /\ defaults_file = NoDefaultsFile
    /\ answers = NoAnswers
    /\ partition_infos = <<>>
    /\ resolved = None
    /\ files = <<>>
    /\ WinfoIdle

\* cancel_jobs up to its loop
CancelJobs ==
    /\ pc = "cancel_jobs"
    /\ IF args.job_ids = <<>>
       THEN /\ stdout' = Append(stdout, PrintLine(<<"E", "r", "r", "o", "r", ":", " ", "A", "t", " ", "l", "e", "a", "s", "t", " ", "o", "n", "e", " ", "j", "o", "b", " ", "I", "D", " ", "m", "u", "s", "t", " ", "b", "e", " ", "p", "r", "o", "v", "i", "d", "e", "d", ".">>))
            /\ exit_code' = 1
            /\ pc' = "cancel_returned"
       ELSE /\ exit_code' = 0
            /\ pc' = "scancel"
            /\ UNCHANGED stdout
    /\ UNCHANGED <<args, exc, stderr, sinfo, sacctmgr, defaults_file, answers, partition_infos,
                   resolved, commands, files>>
    /\ UNCHANGED winfo_vars

\* the job id of the iteration the loop is in
NextJobId == args.job_ids[Len(commands) + 1]

\* one iteration: subprocess.run(base_cmd + [job_id], check=True) and its handlers
RunScancel ==
    /\ pc = "scancel"
    /\ \E outcome \in ScancelOutcomes :
        /\ commands' = Append(commands, [tool |-> "scancel",
                                         cmd |-> base_cmd(args.signal, args.user) \o <<NextJobId>>,
                                         outcome |-> outcome])
        /\ stdout' = Append(stdout, CancelMessage(NextJobId, outcome))
        /\ exit_code' = CodeAfter(exit_code, outcome)
        /\ pc' = AfterAttempt(outcome.status, Len(commands) + 1 = Len(args.job_ids))
    /\ UNCHANGED <<args, exc, stderr, sinfo, sacctmgr, defaults_file, answers, partition_infos,
                   resolved, files>>
    /\ UNCHANGED winfo_vars

NextCancel ==
    \/ CancelJobs
    \/ RunScancel

SpecCancel == InitCancel /\ [][NextCancel]_vars

\* the attempts made so far name the given job ids, one each, in the given order
AttemptsInOrder ==
    /\ Len(commands) <= Len(args.job_ids)
    /\ \A i \in DOMAIN commands :
           /\ commands[i].tool = "scancel"
           /\ commands[i].cmd[Len(commands[i].cmd)] = args.job_ids[i]
           /\ commands[i].cmd[1] = <<"s", "c", "a", "n", "c", "e", "l">>

\* scancel was missing at some attempt
ToolMissing == \E i \in DOMAIN commands : commands[i].outcome.status = "FileNotFoundError"

\* C27: cancel_jobs attempts the given job ids one at a time in the given
\* order; a failed cancellation does not stop the remaining attempts, a missing
\* scancel returns 1 at once with no further attempt; the result is 0 exactly
\* when the list is not empty and every cancellation succeeded; an empty list
\* returns 1 and scancel is not invoked.
C27_CancelInOrder ==
    /\ pc \in {"scancel", "cancel_returned"} => AttemptsInOrder
    /\ \A i \in DOMAIN commands :
           commands[i].outcome.status = "FileNotFoundError"
               => (i = Len(commands) /\ pc = "cancel_returned" /\ exit_code = 1)
    /\ (pc = "cancel_returned" /\ ~ToolMissing) => Len(commands) = Len(args.job_ids)
    /\ pc = "cancel_returned"
       => (exit_code = 0
              <=> /\ args.job_ids # <<>>
                  /\ Len(commands) = Len(args.job_ids)
                  /\ \A i \in DOMAIN commands : commands[i].outcome.status = "ok")
    /\ (pc = "cancel_returned" /\ args.job_ids = <<>>) => (exit_code = 1 /\ commands = <<>>)

\* three job ids were given, the first cancellation failed and the other two
\* were attempted and succeeded
C27_Witness ==
    /\ pc = "cancel_returned"
    /\ Len(args.job_ids) = 3
    /\ Len(commands) = 3
    /\ commands[1].outcome.status = "CalledProcessError"
    /\ commands[2].outcome.status = "ok"
    /\ commands[3].outcome.status = "ok"
    /\ exit_code # 0

-----------------------------------------------------------------------------
(* Properties of resolve_job_config *)

\* value is an element of list
InList(value, list) == \E i \in DOMAIN list : list[i] = value

\* where the precedence takes the field from: the command line, a usable saved
\* default, an answer if the prompts ran, or auto-detection
FieldSource(field) ==
    IF args[field] # <<>> THEN "cli"
    ELSE IF get_default(load_user_defaults(defaults_file), field) # <<>> THEN "default"
    ELSE IF ~args.defaults /\ answers.installed THEN "answer"
    ELSE "auto"

\* the field of the resolved configuration is what its source gives, and is
\* listed where its source says
FilledFrom(field) ==
    CASE FieldSource(field) = "cli" ->
             /\ resolved.config[field] = args[field][1]
             /\ ~InList(field, resolved.default_fields)
             /\ ~InList(field, resolved.auto_fields)
      [] FieldSource(field) = "default" ->
             /\ resolved.config[field] = get_default(load_user_defaults(defaults_file), field)[1]
             /\ InList(field, resolved.default_fields)
             /\ ~InList(field, resolved.auto_fields)
      [] FieldSource(field) = "answer" ->
             /\ resolved.config[field] = answers[field]
             /\ ~InList(field, resolved.default_fields)
             /\ ~InList(field, resolved.auto_fields)
      [] FieldSource(field) = "auto" ->
             /\ InList(field, resolved.auto_fields)
             /\ ~InList(field, resolved.default_fields)
             /\ field \in {"nodes", "tasks_per_node"} => resolved.config[field] = 1
             /\ field = "partition"
                => \E i \in DOMAIN sinfo.lines :
                       sinfo.lines[i].name = resolved.config.partition

\* C28: resolve_job_config fills partition, nodes, tasks_per_node,
\* cpus_per_task, memory, gpus and time by strict precedence: the command-line
\* value; else a usable saved default (the field is then in default_fields);
\* else an answer if the prompts ran; else an auto-detected value (the field is
\* then in auto_fields).  A command-line value is never replaced, no field is in
\* both lists, and a field the user supplied is in neither.
C28_FieldPrecedence ==
    resolved # None => \A i \in DOMAIN JobFields : FilledFrom(JobFields[i])

\* a configuration was resolved from options, saved defaults and answers at once
C28_Witness ==
    /\ resolved # None
    /\ \E i \in DOMAIN JobFields : FieldSource(JobFields[i]) = "cli"
    /\ \E i \in DOMAIN JobFields :
           /\ FieldSource(JobFields[i]) = "default"
           /\ InList(JobFields[i], resolved.default_fields)
    /\ \E i \in DOMAIN JobFields : FieldSource(JobFields[i]) = "answer"

\* -i was given, or the command is empty, or it is the single word bash
AsksForSession == args.interactive \/ args.command = <<>> \/ args.command = <<<<"b", "a", "s", "h">>>>

\* main has left the branch it took for the resolved job
BranchDone == pc \in {"wrun_return", "wrun_raised", "exit"}

-----------------------------------------------------------------------------
(* Properties of save_user_defaults *)

\* the updates main hands to save_user_defaults
GivenUpdates == collect_default_updates(args, UpdateFields)

\* main is about to save a non-empty set of updates
SavesDefaults == pc = "wrun" /\ args.save_defaults /\ GivenUpdates # <<>>

\* the step leaves a file that loads as the stored object with the updates
\* merged into it: the update's value under every key of the updates, the stored
\* value under every other stored key, and no other key
MergedStep ==
    /\ defaults_file'.state = "object"
    /\ DictKeys(load_user_defaults(defaults_file'))
           = DictKeys(load_user_defaults(defaults_file)) \cup DictKeys(GivenUpdates)
    /\ \A k \in DictKeys(GivenUpdates) :
           DictGet(load_user_defaults(defaults_file'), k, JsonNull)
               = DictGet(GivenUpdates, k, JsonNull)
    /\ \A k \in DictKeys(load_user_defaults(defaults_file)) \ DictKeys(GivenUpdates) :
           DictGet(load_user_defaults(defaults_file'), k, JsonNull)
               = DictGet(load_user_defaults(defaults_file), k, JsonNull)
    /\ defaults_file.state # "object"
       => DictKeys(load_user_defaults(defaults_file')) = DictKeys(GivenUpdates)

\* C30: save_user_defaults merges rather than replaces: after saving updates U
\* over a stored object D, loading the file gives U's value for every key of U
\* and D's unchanged value for every key of D that is not in U; when the stored
\* file is missing, corrupted or no JSON object, D counts as empty and the result
\* is exactly U.
C30_SaveMerges == [][SavesDefaults => MergedStep]_vars

\* --partition gpu was saved over stored defaults: the stored time limit is kept
\* beside the new partition
C30_Witness ==
    /\ pc = "wrun_return"
    /\ args.save_defaults
    /\ args.time = <<>>
    /\ args.partition = <<<<"g", "p", "u">>>>
    /\ defaults_file.state = "object"
    /\ DictGet(defaults_file.data, "time", JsonNull) = JsonStr(<<"2", ":", "0", "0", ":", "0", "0">>)
    /\ DictGet(defaults_file.data, "partition", JsonNull) = JsonStr(<<"g", "p", "u">>)

====
